---- MODULE Spec2Model ----
(***************************************************************************)
(* orb-flatgeobuf: the typed property codec (schema inference, type        *)
(* promotion, encode/decode of a property record) and the geometry         *)
(* coordinate packing, as state machines over bounded inputs.              *)
(*                                                                         *)
(* Go values are modelled down to their bytes: an integer value is the     *)
(* little-endian two's-complement byte sequence of its Go type's width     *)
(* (int and uint are 64 bits wide, as on amd64/arm64), a float is its      *)
(* IEEE-754 bit pattern, a string is its UTF-8 bytes.                      *)
(***************************************************************************)
EXTENDS Integers, Sequences, FiniteSets, TLC

VARIABLES
    promA, promB,          \* operands handed to promoteColumnType
    promLog,               \* the calls made so far: {[a, b, r]}
    features,              \* the batch handed to inferColumns
    infRuns,               \* the column list returned by each run of inferColumns
    val, valColType,     \* one value and the declared type of its column
    valInferred,           \* inferColumnType(value)
    valBytes, valRead,     \* what writePropertyValue wrote, what readPropertyValue read
    valPc,
    recIdx,                \* the feature of the batch whose properties are encoded
    schema, schemaMap,    \* the schema inferred from the batch
    propBytes,             \* encodeProperties' result
    rawData, fileHeader,          \* the arguments of decodeProperties
    decoded,               \* decodeProperties' result
    codecPc,
    inGeom,                \* the geometry handed to geometryToFGB
    packed,                \* the FlatGeobuf geometry it builds
    outGeom,               \* geometryFromFGB of it
    xyRead,                \* the reads Xy(i) geometryFromFGB made: {[len, i]}
    geomPc,
    boxIn,                 \* the Bound() of each geometry handed to computeCollectionBoundingBox
    boxOut,                \* the [4]float64 it returns
    boxPc,
    wCall,                 \* the writer entry point that is called
    wGeoms, wFc, wFeat,    \* its argument: geometries, fc or f
    wOpts,                 \* opts
    wOut,                  \* the error returned and what reached the sink
    wPc,
    rFile,                 \* the file a Reader is open on
    rBounds,               \* the bounds handed to Search
    rOut,                  \* the result and error of the call
    rPc,
    encRuns,               \* what each call of encodeProperties on one record returned
    genKind,               \* which feature generator is driven
    genItems,              \* its input
    genIndex,              \* its field index
    genOut                 \* what each call of Generate returned

promVars  == <<promA, promB, promLog>>
inferVars == <<features, infRuns>>
valueVars == <<val, valColType, valInferred, valBytes, valRead, valPc>>
codecVars == <<recIdx, schema, schemaMap, propBytes, rawData, fileHeader, decoded, codecPc>>
geomVars  == <<inGeom, packed, outGeom, xyRead, geomPc>>
bboxVars  == <<boxIn, boxOut, boxPc>>
writerVars == <<wCall, wGeoms, wFc, wFeat, wOpts, wOut, wPc>>
readerVars == <<rFile, rBounds, rOut, rPc>>
pureVars  == <<encRuns>>
genVars   == <<genKind, genItems, genIndex, genOut>>
ioVars    == <<bboxVars, writerVars, readerVars, pureVars, genVars>>
vars      == <<promVars, inferVars, valueVars, codecVars, geomVars, ioVars>>

(***************************************************************************)
(* Bounds of the model.                                                    *)
(***************************************************************************)
MaxFeatures == 2
MaxData == 6       \* length of a byte sequence handed to decodeProperties
MaxPts == 2        \* points of a line or ring
MaxRings == 2      \* lines of a MultiLineString, rings of a Polygon
MaxPolys == 2      \* polygons of a MultiPolygon
MaxMembers == 2    \* members of a Collection
MaxXY == 4         \* length of the xy vector of a record handed to geometryFromFGB
MaxEnd == 3        \* largest entry of its ends vector

(***************************************************************************)
(* flattypes.ColumnType                                                    *)
(***************************************************************************)
ColumnTypes ==
    {"Byte", "UByte", "Bool", "Short", "UShort", "Int", "UInt", "Long",
     "ULong", "Float", "Double", "String", "Json", "DateTime", "Binary"}

NoType == "none"

(***************************************************************************)
(* Sequences helpers                                                       *)
(***************************************************************************)
RECURSIVE Concat(_)
Concat(ss) == IF ss = <<>> THEN <<>> ELSE Head(ss) \o Concat(Tail(ss))

Reverse(s) == [i \in 1..Len(s) |-> s[Len(s) + 1 - i]]

Repeat(x, n) == IF n <= 0 THEN <<>> ELSE [i \in 1..n |-> x]

\* every order in which the elements of S can be enumerated
Perms(S) ==
    {s \in [1..Cardinality(S) -> S] : \A i, j \in 1..Cardinality(S) : s[i] = s[j] => i = j}

IndexOf(s, x) == IF \E i \in 1..Len(s) : s[i] = x
                 THEN CHOOSE i \in 1..Len(s) : s[i] = x
                 ELSE 0

(***************************************************************************)
(* Go values: [k |-> dynamic type, b |-> payload bytes].                   *)
(***************************************************************************)
GoVal(kind, bytes) == [k |-> kind, b |-> bytes]

Nil    == GoVal("nil", <<>>)
Absent == GoVal("absent", <<>>)   \* the key is not in the map

\* property names, and the keys a property map holds
Names == {"a", "b"}

Keys(props) == {n \in Names : props[n] # Absent}

SignedKinds   == {"int", "int8", "int16", "int32", "int64"}
UnsignedKinds == {"uint", "uint8", "uint16", "uint32", "uint64"}

KindWidth(kind) ==
    CASE kind \in {"int8", "uint8"}   -> 1
      [] kind \in {"int16", "uint16"} -> 2
      [] kind \in {"int32", "uint32", "float32"} -> 4
      [] kind \in {"int", "int64", "uint", "uint64", "float64"} -> 8

\* little-endian two's complement of a small integer n, w bytes wide
RECURSIVE NatLE(_, _)
NatLE(n, w) == IF w = 0 THEN <<>> ELSE <<n % 256>> \o NatLE(n \div 256, w - 1)

IntLE(n, w) == IF n >= 0 THEN NatLE(n, w)
               ELSE [i \in 1..w |-> 255 - NatLE(-n - 1, w)[i]]

IsNegative(bytes) == bytes[Len(bytes)] >= 128

SignExtend(bytes, w) ==
    bytes \o Repeat(IF IsNegative(bytes) THEN 255 ELSE 0, w - Len(bytes))

ZeroExtend(bytes, w) == bytes \o Repeat(0, w - Len(bytes))

Truncate(bytes, w) == SubSeq(bytes, 1, w)

\* v >= math.MinInt32 && v <= math.MaxInt32, for a 64-bit v
FitsInt32(bytes) == bytes = SignExtend(Truncate(bytes, 4), 8)

(***************************************************************************)
(* Bit strings (most significant bit first) and IEEE-754 conversions.      *)
(***************************************************************************)
RECURSIVE Pow2(_)
Pow2(n) == IF n = 0 THEN 1 ELSE 2 * Pow2(n - 1)

\* the w-bit string of a small natural n
NatBits(n, w) == [i \in 1..w |-> (n \div Pow2(w - i)) % 2]

RECURSIVE BitsToNat(_)
BitsToNat(bits) ==
    IF bits = <<>> THEN 0
    ELSE 2 * BitsToNat(SubSeq(bits, 1, Len(bits) - 1)) + bits[Len(bits)]

\* the bit string of a little-endian byte sequence, and back
BitsOfLE(bytes) ==
    [i \in 1..(8 * Len(bytes)) |->
        NatBits(bytes[Len(bytes) - ((i - 1) \div 8)], 8)[((i - 1) % 8) + 1]]

LEOfBits(bits) ==
    [j \in 1..(Len(bits) \div 8) |->
        BitsToNat(SubSeq(bits, Len(bits) - 8 * j + 1, Len(bits) - 8 * j + 8))]

RECURSIVE StripZeros(_)
StripZeros(bits) ==
    IF bits # <<>> /\ bits[1] = 0 THEN StripZeros(Tail(bits)) ELSE bits

\* bits + 1; one bit longer when every bit was set
RECURSIVE IncBits(_)
IncBits(bits) ==
    IF bits = <<>> THEN <<1>>
    ELSE IF bits[Len(bits)] = 0 THEN SubSeq(bits, 1, Len(bits) - 1) \o <<1>>
    ELSE IncBits(SubSeq(bits, 1, Len(bits) - 1)) \o <<0>>

\* two's complement negation within Len(bits) bits
NegBits(bits) ==
    LET inc == IncBits([i \in 1..Len(bits) |-> 1 - bits[i]])
    IN SubSeq(inc, Len(inc) - Len(bits) + 1, Len(inc))

PadLeft(bits, w) == Repeat(0, w - Len(bits)) \o bits

\* the first n bits of m, rounded to nearest, ties to even, by the bits
\* that follow (n + 1 bits when the rounding carries out)
RoundNearestEven(m, n) ==
    LET mm == m \o Repeat(0, n - Len(m))
        keep == SubSeq(mm, 1, n)
        rest == SubSeq(mm, n + 1, Len(mm))
        guard == rest # <<>> /\ rest[1] = 1
        sticky == \E i \in 2..Len(rest) : rest[i] = 1
        lsb == n > 0 /\ keep[n] = 1
    IN IF guard /\ (sticky \/ lsb) THEN IncBits(keep) ELSE keep

\* float64(v) for an integer of sign `sign` and magnitude bits `mag`
Float64FromMagnitude(sign, mag) ==
    LET m == StripZeros(mag)
        r == RoundNearestEven(m, 53)
        e == (Len(m) - 1) + (Len(r) - 53)
    IN IF m = <<>> THEN Repeat(0, 8)
       ELSE LEOfBits(<<sign>> \o NatBits(e + 1023, 11) \o SubSeq(r, 2, 53))

Float64FromInt64(bytes) ==
    IF IsNegative(bytes)
    THEN Float64FromMagnitude(1, NegBits(BitsOfLE(bytes)))
    ELSE Float64FromMagnitude(0, BitsOfLE(bytes))

Float64FromUint64(bytes) == Float64FromMagnitude(0, BitsOfLE(bytes))

Float64FromNat(n) == Float64FromMagnitude(0, NatBits(n, 31))

F64Sign(bytes) == BitsOfLE(bytes)[1]
F64Exp(bytes)  == BitsToNat(SubSeq(BitsOfLE(bytes), 2, 12))
F64Frac(bytes) == SubSeq(BitsOfLE(bytes), 13, 64)
F64IsNaN(bytes) == F64Exp(bytes) = 2047 /\ \E i \in 1..52 : F64Frac(bytes)[i] = 1

\* 0x8000000000000000: what amd64's CVTTSD2SQ stores for a value out of range
\* (the Go specification leaves the result implementation-dependent)
IntegerIndefinite == <<0, 0, 0, 0, 0, 0, 0, 128>>

\* the magnitude of a float64 truncated toward zero, as 64 bits; defined for
\* unbiased exponents below 64
F64Magnitude(bytes) ==
    LET e == F64Exp(bytes) - 1023
        mant == <<1>> \o F64Frac(bytes)
    IN IF F64Exp(bytes) = 0 \/ e < 0 THEN Repeat(0, 64)
       ELSE IF e <= 52 THEN PadLeft(SubSeq(mant, 1, e + 1), 64)
       ELSE PadLeft(mant \o Repeat(0, e - 52), 64)

\* int64(f)
Float64ToInt64(bytes) ==
    IF F64Exp(bytes) - 1023 >= 63 THEN IntegerIndefinite
    ELSE IF F64Sign(bytes) = 1 THEN LEOfBits(NegBits(F64Magnitude(bytes)))
    ELSE LEOfBits(F64Magnitude(bytes))

\* uint64(f), for f >= 0
Float64ToUint64(bytes) ==
    IF F64Exp(bytes) - 1023 >= 64 THEN IntegerIndefinite
    ELSE LEOfBits(F64Magnitude(bytes))

\* float64(f) for a float32 f: exact
Float32To64(bytes) ==
    LET bits == BitsOfLE(bytes)
        sign == bits[1]
        exp8 == BitsToNat(SubSeq(bits, 2, 9))
        frac == SubSeq(bits, 10, 32)
        sub == StripZeros(frac)
    IN IF exp8 = 255
         THEN LEOfBits(<<sign>> \o NatBits(2047, 11) \o frac \o Repeat(0, 29))
       ELSE IF exp8 = 0 /\ sub = <<>>
         THEN LEOfBits(<<sign>> \o Repeat(0, 63))
       ELSE IF exp8 = 0
         THEN LEOfBits(<<sign>> \o NatBits(1023 - 126 - (23 - Len(sub) + 1), 11)
                       \o Tail(sub) \o Repeat(0, 52 - (Len(sub) - 1)))
       ELSE LEOfBits(<<sign>> \o NatBits(exp8 + 896, 11) \o frac \o Repeat(0, 29))

\* float32(f) for a float64 f: rounded to nearest, ties to even
Float64To32(bytes) ==
    LET sign == F64Sign(bytes)
        e == F64Exp(bytes) - 1023
        mant == <<1>> \o F64Frac(bytes)
        inf == LEOfBits(<<sign>> \o NatBits(255, 8) \o Repeat(0, 23))
        rn == RoundNearestEven(mant, 24)
        en == e + (Len(rn) - 24)
        rs == RoundNearestEven(Repeat(0, -126 - e) \o mant, 24)
    IN IF F64Exp(bytes) = 2047
         THEN LEOfBits(<<sign>> \o NatBits(255, 8) \o
                       (IF F64IsNaN(bytes) THEN <<1>> \o SubSeq(F64Frac(bytes), 2, 23)
                        ELSE Repeat(0, 23)))
       ELSE IF F64Exp(bytes) = 0 \/ e < -150
         THEN LEOfBits(<<sign>> \o Repeat(0, 31))
       ELSE IF e < -126
         THEN LEOfBits(<<sign>> \o NatBits(rs[1], 8) \o SubSeq(rs, 2, 24))
       ELSE IF en > 127 THEN inf
       ELSE LEOfBits(<<sign>> \o NatBits(en + 127, 8) \o SubSeq(rn, 2, 24))

(***************************************************************************)
(* inferColumnType (properties.go:64)                                      *)
(***************************************************************************)
inferColumnType(value) ==
    CASE value.k = "nil"     -> "String"
      [] value.k = "bool"    -> "Bool"
      [] value.k = "int"     -> IF FitsInt32(value.b) THEN "Int" ELSE "Long"
      [] value.k \in {"int8", "int16", "int32"} -> "Int"
      [] value.k = "int64"   -> "Long"
      [] value.k \in {"uint", "uint8", "uint16", "uint32"} -> "UInt"
      [] value.k = "uint64"  -> "ULong"
      [] value.k = "float32" -> "Float"
      [] value.k = "float64" -> "Double"
      [] value.k = "string"  -> "String"
      [] value.k \in {"map", "slice"} -> "Json"
      [] OTHER               -> "Json"

(***************************************************************************)
(* promoteColumnType (properties.go:105)                                   *)
(***************************************************************************)
numericTypes_int_above_long ==
    [t \in {"Bool", "Byte", "UByte", "Short", "UShort", "Int", "UInt", "Long",
            "ULong", "Float", "Double"} |->
        CASE t = "Bool"   -> 0
          [] t = "Byte"   -> 1
          [] t = "UByte"  -> 2
          [] t = "Short"  -> 3
          [] t = "UShort" -> 4
          [] t = "Int"    -> 7
          [] t = "UInt"   -> 6
          [] t = "Long"   -> 5
          [] t = "ULong"  -> 8
          [] t = "Float"  -> 9
          [] t = "Double" -> 10]

numericTypes ==
    [t \in {"Bool", "Byte", "UByte", "Short", "UShort", "Int", "UInt", "Long",
            "ULong", "Float", "Double"} |->
        CASE t = "Bool"   -> 0
          [] t = "Byte"   -> 1
          [] t = "UByte"  -> 2
          [] t = "Short"  -> 3
          [] t = "UShort" -> 4
          [] t = "Int"    -> 5
          [] t = "UInt"   -> 6
          [] t = "Long"   -> 7
          [] t = "ULong"  -> 8
          [] t = "Float"  -> 9
          [] t = "Double" -> 10]

promoteColumnType_default_a(a, b) ==
    IF a = b THEN a
    ELSE IF a = "Json" \/ b = "Json" THEN "Json"
    ELSE IF a = "String" \/ b = "String" THEN "String"
    ELSE IF a \in DOMAIN numericTypes /\ b \in DOMAIN numericTypes
         THEN IF numericTypes[a] > numericTypes[b] THEN a ELSE b
    ELSE a

promoteColumnType_second_numeric(a, b) ==
    IF a = b THEN a
    ELSE IF a = "Json" \/ b = "Json" THEN "Json"
    ELSE IF a = "String" \/ b = "String" THEN "String"
    ELSE IF a \in DOMAIN numericTypes /\ b \in DOMAIN numericTypes
         THEN b
    ELSE "Json"

promoteColumnType(a, b) ==
    IF a = b THEN a
    ELSE IF a = "Json" \/ b = "Json" THEN "Json"
    ELSE IF a = "String" \/ b = "String" THEN "String"
    ELSE IF a \in DOMAIN numericTypes /\ b \in DOMAIN numericTypes
         THEN IF numericTypes[a] > numericTypes[b] THEN a ELSE b
    ELSE "Json"

(***************************************************************************)
(* Type conversion helpers (properties.go:451-556).  Each returns          *)
(* [ok, v]: v is the 8 bytes of the int64, uint64 or float64 result.       *)
(***************************************************************************)
Conv(ok, v) == [ok |-> ok, v |-> v]

F64NonNegative(bytes) ==
    ~F64IsNaN(bytes) /\ (F64Sign(bytes) = 0 \/ bytes = <<0, 0, 0, 0, 0, 0, 0, 128>>)

toInt64(v) ==
    CASE v.k \in SignedKinds   -> Conv(TRUE, SignExtend(v.b, 8))
      [] v.k \in UnsignedKinds -> Conv(TRUE, ZeroExtend(v.b, 8))
      [] v.k = "float32"       -> Conv(TRUE, Float64ToInt64(Float32To64(v.b)))
      [] v.k = "float64"       -> Conv(TRUE, Float64ToInt64(v.b))
      [] OTHER                 -> Conv(FALSE, Repeat(0, 8))

toUint64(v) ==
    CASE v.k \in UnsignedKinds -> Conv(TRUE, ZeroExtend(v.b, 8))
      [] v.k \in {"int", "int64"} /\ ~IsNegative(v.b) -> Conv(TRUE, v.b)
      [] v.k = "float64" /\ F64NonNegative(v.b) -> Conv(TRUE, Float64ToUint64(v.b))
      [] OTHER                 -> Conv(FALSE, Repeat(0, 8))

toFloat64(v) ==
    CASE v.k = "float32"           -> Conv(TRUE, Float32To64(v.b))
      [] v.k = "float64"           -> Conv(TRUE, v.b)
      [] v.k \in {"int", "int64"}   -> Conv(TRUE, Float64FromInt64(v.b))
      [] v.k \in {"uint", "uint64"} -> Conv(TRUE, Float64FromUint64(v.b))
      [] OTHER                     -> Conv(FALSE, Repeat(0, 8))

(***************************************************************************)
(* encoding/json on the documents of the model.  The structured values     *)
(* are the empty map and the empty slice.  jsonUnmarshal decides the       *)
(* texts whose containers are empty and that hold no string literal,       *)
(* sign, fraction or exponent, and numbers of at most 9 digits: every      *)
(* text the specifications below can hand to it.                           *)
(***************************************************************************)
EmptyMap   == GoVal("map", <<>>)
EmptySlice == GoVal("slice", <<>>)

TxtTrue  == <<116, 114, 117, 101>>
TxtFalse == <<102, 97, 108, 115, 101>>
TxtNull  == <<110, 117, 108, 108>>

JsonSpace == {32, 9, 10, 13}
JsonDigit == 48..57

jsonMarshal(value) ==
    CASE value.k = "map"   -> <<123, 125>>
      [] value.k = "slice" -> <<91, 93>>
      [] value.k = "bool"  -> IF value.b = <<1>> THEN TxtTrue ELSE TxtFalse
      [] value.k = "nil"   -> TxtNull

RECURSIVE TrimLeft(_)
TrimLeft(t) == IF t # <<>> /\ t[1] \in JsonSpace THEN TrimLeft(Tail(t)) ELSE t

JsonTrim(t) == Reverse(TrimLeft(Reverse(TrimLeft(t))))

RECURSIVE DigitsToNat(_)
DigitsToNat(t) ==
    IF t = <<>> THEN 0
    ELSE 10 * DigitsToNat(SubSeq(t, 1, Len(t) - 1)) + (t[Len(t)] - 48)

\* json.Unmarshal(text, &jsonValue) with jsonValue an interface{}: [ok, v]
jsonUnmarshal(text) ==
    LET t == JsonTrim(text)
        inner == SubSeq(t, 2, Len(t) - 1)
    IN CASE t = <<>> -> Conv(FALSE, Nil)
         [] t # <<>> /\ Len(t) >= 2 /\ t[1] = 123 /\ t[Len(t)] = 125
               /\ TrimLeft(inner) = <<>> -> Conv(TRUE, EmptyMap)
         [] t # <<>> /\ Len(t) >= 2 /\ t[1] = 91 /\ t[Len(t)] = 93
               /\ TrimLeft(inner) = <<>> -> Conv(TRUE, EmptySlice)
         [] t = TxtTrue  -> Conv(TRUE, GoVal("bool", <<1>>))
         [] t = TxtFalse -> Conv(TRUE, GoVal("bool", <<0>>))
         [] t = TxtNull  -> Conv(TRUE, Nil)
         [] t # <<>> /\ Len(t) <= 9 /\ (\A i \in 1..Len(t) : t[i] \in JsonDigit)
               /\ (Len(t) = 1 \/ t[1] # 48)
               -> Conv(TRUE, GoVal("float64", Float64FromNat(DigitsToNat(t))))
         [] OTHER -> Conv(FALSE, Nil)

toString(v) ==
    CASE v.k = "string" -> v.b
      [] v.k = "bytes"  -> v.b
      [] OTHER          -> jsonMarshal(v)

(***************************************************************************)
(* writePropertyValue (properties.go:182): the bytes appended to buf.      *)
(* The col argument is not read: the type is inferred from the value.      *)
(***************************************************************************)
writePropertyValue(value, col) ==
    LET colType == inferColumnType(value)
        i64 == toInt64(value)
        u64 == toUint64(value)
        f64 == toFloat64(value)
    IN CASE colType = "Bool" ->
              IF value.k = "bool" THEN (IF value.b = <<1>> THEN <<1>> ELSE <<0>>) ELSE <<>>
         [] colType \in {"Byte", "UByte"} ->
              IF i64.ok THEN Truncate(i64.v, 1) ELSE <<>>
         [] colType \in {"Short", "UShort"} ->
              IF i64.ok THEN Truncate(i64.v, 2) ELSE <<>>
         [] colType \in {"Int", "UInt"} ->
              IF i64.ok THEN Truncate(i64.v, 4) ELSE <<>>
         [] colType = "Long" ->
              IF i64.ok THEN i64.v ELSE <<>>
         [] colType = "ULong" ->
              IF u64.ok THEN u64.v ELSE <<>>
         [] colType = "Float" ->
              IF f64.ok THEN Float64To32(f64.v) ELSE <<>>
         [] colType = "Double" ->
              IF f64.ok THEN f64.v ELSE <<>>
         [] colType \in {"String", "DateTime"} ->
              toString(value) \o <<0>>
         [] colType = "Json" ->
              jsonMarshal(value) \o <<0>>
         [] colType = "Binary" ->
              IF value.k = "bytes" THEN NatLE(Len(value.b), 4) \o value.b ELSE <<>>

(***************************************************************************)
(* readPropertyValue (properties.go:340): [v, n, panic], the value, the    *)
(* number of bytes read, and whether the slice expression of the Binary    *)
(* case panics.                                                            *)
(***************************************************************************)
Read(v, n) == [v |-> v, n |-> n, panic |-> FALSE]

\* bytes.IndexByte(data, 0), 0-based, -1 when there is none
IndexByte0(data) ==
    IF \E i \in 1..Len(data) : data[i] = 0
    THEN (CHOOSE i \in 1..Len(data) :
             data[i] = 0 /\ \A j \in 1..(i - 1) : data[j] # 0) - 1
    ELSE -1

\* 4 + length in uint32 arithmetic
RECURSIVE AddLE(_, _)
AddLE(bytes, c) ==
    IF bytes = <<>> THEN <<>>
    ELSE <<(bytes[1] + c) % 256>> \o AddLE(Tail(bytes), (bytes[1] + c) \div 256)

\* len < int(u) for a uint32 u given as 4 bytes
LenLessU32(len, u) ==
    IF u[4] # 0 THEN TRUE ELSE len < u[1] + 256 * u[2] + 65536 * u[3]

readFixed(data, w, kind) ==
    IF Len(data) < w THEN Read(Nil, 0) ELSE Read(GoVal(kind, SubSeq(data, 1, w)), w)

readPropertyValue(data, colType) ==
    CASE colType = "Bool" ->
              IF Len(data) < 1 THEN Read(Nil, 0)
              ELSE Read(GoVal("bool", IF data[1] # 0 THEN <<1>> ELSE <<0>>), 1)
      [] colType = "Byte"   -> readFixed(data, 1, "int8")
      [] colType = "UByte"  -> readFixed(data, 1, "uint8")
      [] colType = "Short"  -> readFixed(data, 2, "int16")
      [] colType = "UShort" -> readFixed(data, 2, "uint16")
      [] colType = "Int"    -> readFixed(data, 4, "int32")
      [] colType = "UInt"   -> readFixed(data, 4, "uint32")
      [] colType = "Long"   -> readFixed(data, 8, "int64")
      [] colType = "ULong"  -> readFixed(data, 8, "uint64")
      [] colType = "Float"  -> readFixed(data, 4, "float32")
      [] colType = "Double" -> readFixed(data, 8, "float64")
      [] colType \in {"String", "DateTime"} ->
              LET nullIdx == IndexByte0(data)
              IN IF nullIdx = -1 THEN Read(GoVal("string", data), Len(data))
                 ELSE Read(GoVal("string", SubSeq(data, 1, nullIdx)), nullIdx + 1)
      [] colType = "Json" ->
              LET nullIdx == IF IndexByte0(data) = -1 THEN Len(data) ELSE IndexByte0(data)
                  parsed == jsonUnmarshal(SubSeq(data, 1, nullIdx))
              IN IF ~parsed.ok THEN Read(GoVal("string", SubSeq(data, 1, nullIdx)), nullIdx + 1)
                 ELSE IF nullIdx < Len(data) THEN Read(parsed.v, nullIdx + 1)
                 ELSE Read(parsed.v, nullIdx)
      [] colType = "Binary" ->
              IF Len(data) < 4 THEN Read(Nil, 0)
              ELSE LET end == AddLE(SubSeq(data, 1, 4), 4)
                       hi == end[1] + 256 * end[2] + 65536 * end[3]
                   IN IF LenLessU32(Len(data), end) THEN Read(Nil, 0)
                      ELSE IF hi < 4 THEN [v |-> Nil, n |-> 0, panic |-> TRUE]
                      ELSE Read(GoVal("bytes", SubSeq(data, 5, hi)), hi)
      [] OTHER -> Read(Nil, 0)

(***************************************************************************)
(* encodeProperties (properties.go:151).  order is the order the range     *)
(* over props takes; columnMap maps a name to its column index, -1 when    *)
(* the name is not a key.  A nil map and an empty map are the same input   *)
(* to every function here (no iteration, no bytes), so both are the        *)
(* all-Absent function.  Returns [bytes, panic]: panic when               *)
(* columns[colIndex] is out of range.                                      *)
(***************************************************************************)
\* the loop with the nil test left out: the index of a nil entry is written
RECURSIVE encodeLoop_nil_written(_, _, _, _, _)
encodeLoop_nil_written(buf, props, columns, columnMap, order) ==
    IF order = <<>> THEN [bytes |-> buf, panic |-> FALSE]
    ELSE LET name == Head(order)
             value == props[name]
             colIndex == columnMap[name]
         IN IF colIndex = -1
              THEN encodeLoop_nil_written(buf, props, columns, columnMap, Tail(order))
            ELSE IF colIndex >= Len(columns)
              THEN [bytes |-> buf \o NatLE(colIndex, 2), panic |-> TRUE]
            ELSE encodeLoop_nil_written(
                     buf \o NatLE(colIndex, 2)
                         \o (IF value = Nil THEN <<>>
                             ELSE writePropertyValue(value, columns[colIndex + 1])),
                     props, columns, columnMap, Tail(order))

RECURSIVE encodeLoop(_, _, _, _, _)
encodeLoop(buf, props, columns, columnMap, order) ==
    IF order = <<>> THEN [bytes |-> buf, panic |-> FALSE]
    ELSE LET name == Head(order)
             value == props[name]
             colIndex == columnMap[name]
         IN IF value = Nil \/ colIndex = -1
              THEN encodeLoop(buf, props, columns, columnMap, Tail(order))
            ELSE IF colIndex >= Len(columns)
              THEN [bytes |-> buf \o NatLE(colIndex, 2), panic |-> TRUE]
            ELSE encodeLoop(buf \o NatLE(colIndex, 2)
                                \o writePropertyValue(value, columns[colIndex + 1]),
                            props, columns, columnMap, Tail(order))

encodeProperties(props, columns, columnMap, order) ==
    IF Keys(props) = {} \/ Len(columns) = 0 THEN [bytes |-> <<>>, panic |-> FALSE]
    ELSE encodeLoop(<<>>, props, columns, columnMap, order)

\* buildColumnMap (properties.go:559)
buildColumnMap(columns, columnNames) ==
    [n \in Names |->
        IF \E i \in 1..Len(columnNames) : columnNames[i] = n
        THEN (CHOOSE i \in 1..Len(columnNames) :
                 columnNames[i] = n /\ \A j \in (i + 1)..Len(columnNames) : columnNames[j] # n) - 1
        ELSE -1]

\* getColumnNames (properties.go:568): the names in the order they are first
\* met; iter[i] is the order the range over feature i's properties takes
RECURSIVE namesOfFeature(_, _)
namesOfFeature(names, order) ==
    IF order = <<>> THEN names
    ELSE namesOfFeature(IF \E i \in 1..Len(names) : names[i] = Head(order)
                        THEN names ELSE Append(names, Head(order)),
                        Tail(order))

RECURSIVE namesLoop(_, _, _)
namesLoop(names, fs, iter) ==
    IF fs = <<>> THEN names
    ELSE namesLoop(namesOfFeature(names, Head(iter)), Tail(fs), Tail(iter))

getColumnNames(fs, iter) == namesLoop(<<>>, fs, iter)

(***************************************************************************)
(* decodeProperties (properties.go:293).  header is the column list of     *)
(* the flattypes.Header.  Returns the record decoded, with the cursor and  *)
(* the number of loop iterations at the return, and whether the call       *)
(* panicked.                                                               *)
(***************************************************************************)
Header(columns) == [nil |-> FALSE, columns |-> columns]
NilHeader == [nil |-> TRUE, columns |-> <<>>]

NoProps == [n \in Names |-> Absent]

Decoded(isNil, props, offset, iters, panic) ==
    [nil |-> isNil, props |-> props, offset |-> offset, iters |-> iters, panic |-> panic]

RECURSIVE decodeLoop_one_index_byte(_, _, _, _, _)
decodeLoop_one_index_byte(data, header, props, offset, iters) ==
    IF ~(offset < Len(data)) THEN Decoded(FALSE, props, offset, iters, FALSE)
    ELSE IF offset + 2 > Len(data) THEN Decoded(FALSE, props, offset, iters + 1, FALSE)
    ELSE LET colIndex == data[offset + 1] + 256 * data[offset + 2]
             off2 == offset + 2
         IN IF colIndex >= Len(header.columns)
              THEN Decoded(FALSE, props, off2, iters + 1, FALSE)
            ELSE LET col == header.columns[colIndex + 1]
                     rd == readPropertyValue(SubSeq(data, off2 + 1, Len(data)), col.type)
                 IN IF rd.panic THEN Decoded(FALSE, props, off2, iters + 1, TRUE)
                    ELSE IF rd.n = 0 /\ col.type # "Bool"
                      THEN Decoded(FALSE, props, off2, iters + 1, FALSE)
                    ELSE decodeLoop_one_index_byte(data, header,
                                                   [props EXCEPT ![col.name] = rd.v],
                                                   offset + 1 + rd.n, iters + 1)

RECURSIVE decodeLoop(_, _, _, _, _)
decodeLoop(data, header, props, offset, iters) ==
    IF ~(offset < Len(data)) THEN Decoded(FALSE, props, offset, iters, FALSE)
    ELSE IF offset + 2 > Len(data) THEN Decoded(FALSE, props, offset, iters + 1, FALSE)
    ELSE LET colIndex == data[offset + 1] + 256 * data[offset + 2]
             off2 == offset + 2
         IN IF colIndex >= Len(header.columns)
              THEN Decoded(FALSE, props, off2, iters + 1, FALSE)
            ELSE LET col == header.columns[colIndex + 1]
                     rd == readPropertyValue(SubSeq(data, off2 + 1, Len(data)), col.type)
                 IN IF rd.panic THEN Decoded(FALSE, props, off2, iters + 1, TRUE)
                    ELSE IF rd.n = 0 /\ col.type # "Bool"
                      THEN Decoded(FALSE, props, off2, iters + 1, FALSE)
                    ELSE decodeLoop(data, header, [props EXCEPT ![col.name] = rd.v],
                                    off2 + rd.n, iters + 1)

decodeProperties(data, header) ==
    IF Len(data) = 0 \/ header.nil THEN Decoded(TRUE, NoProps, 0, 0, FALSE)
    ELSE decodeLoop(data, header, NoProps, 0, 0)

(***************************************************************************)
(* inferColumns (properties.go:18)                                         *)
(*                                                                         *)
(* A feature's Properties is a Go map, here a function from Names to       *)
(* values with Absent for the keys the map does not hold.  `for name,      *)
(* value := range f.Properties` yields the keys in an order Go leaves      *)
(* unspecified: iter[i] is the order the range over feature i takes.       *)
(***************************************************************************)
\* lines 32-45: one iteration of the inner loop
inferVisit_prepend(st, name, value) ==
    LET exists == st.types[name] # NoType
        inferredType == inferColumnType(value)
    IN [order |-> IF exists THEN st.order ELSE <<name>> \o st.order,
        types |-> [st.types EXCEPT ![name] =
                      IF exists THEN promoteColumnType(@, inferredType)
                      ELSE inferredType]]

inferVisit(st, name, value) ==
    LET exists == st.types[name] # NoType
        inferredType == inferColumnType(value)
    IN [order |-> IF exists THEN st.order ELSE Append(st.order, name),
        types |-> [st.types EXCEPT ![name] =
                      IF exists THEN promoteColumnType(@, inferredType)
                      ELSE inferredType]]

RECURSIVE inferFeature(_, _, _)
inferFeature(st, props, order) ==
    IF order = <<>> THEN st
    ELSE inferFeature(inferVisit(st, Head(order), props[Head(order)]), props, Tail(order))

RECURSIVE inferLoop(_, _, _)
inferLoop(st, fs, iter) ==
    IF fs = <<>> THEN st
    ELSE inferLoop(inferFeature(st, Head(fs).props, Head(iter)), Tail(fs), Tail(iter))

\* writer.Column: name, type, nullable (title = name)
Column(name, type) == [name |-> name, type |-> type, nullable |-> TRUE]

inferColumns(fs, iter) ==
    IF Len(fs) = 0 THEN <<>>
    ELSE LET st == inferLoop([order |-> <<>>, types |-> [n \in Names |-> NoType]], fs, iter)
         IN [i \in 1..Len(st.order) |-> Column(st.order[i], st.types[st.order[i]])]

\* the orders Go's map iteration may take over each feature of fs
IterOrders(fs) ==
    {it \in [1..Len(fs) -> UNION {Perms(S) : S \in SUBSET Names}] :
        \A i \in 1..Len(fs) : it[i] \in Perms(Keys(fs[i].props))}

(***************************************************************************)
(* Values and batches the inference is run on.                             *)
(***************************************************************************)
Int10      == GoVal("int", IntLE(10, 8))
Float3p5   == GoVal("float64", <<0, 0, 0, 0, 0, 0, 12, 64>>)   \* 3.5

InferValues == {Nil, Int10, Float3p5}

PropMaps(values) == [Names -> values \cup {Absent}]

Feature(props) == [props |-> props]

Batches(values, n) ==
    UNION {[1..len -> {Feature(p) : p \in PropMaps(values)}] : len \in 0..n}

(***************************************************************************)
(* Promotion on its own: promoteColumnType applied to operands drawn from  *)
(* the whole enumeration.                                                  *)
(***************************************************************************)
(***************************************************************************)
(* Geometry conversion (geometry.go).  A coordinate is a float64 that is   *)
(* stored and read back without arithmetic, so it is a number here; a      *)
(* point is <<x, y>>.  An orb geometry is a record: its points (Point,     *)
(* MultiPoint, LineString, Ring; Min and Max of a Bound), its lines or     *)
(* rings (MultiLineString, Polygon), its polygons (MultiPolygon), its      *)
(* members (Collection).  A FlatGeobuf geometry is its type and its xy,    *)
(* ends and parts vectors: XyLength, EndsLength and PartsLength are their  *)
(* lengths.                                                                *)
(***************************************************************************)
Geom(t, pts, lines, polys, members) ==
    [t |-> t, pts |-> pts, lines |-> lines, polys |-> polys, members |-> members]

NilGeom                == Geom("nil", <<>>, <<>>, <<>>, <<>>)
Point(p)               == Geom("Point", <<p>>, <<>>, <<>>, <<>>)
MultiPoint(ps)         == Geom("MultiPoint", ps, <<>>, <<>>, <<>>)
LineString(ps)         == Geom("LineString", ps, <<>>, <<>>, <<>>)
Ring(ps)               == Geom("Ring", ps, <<>>, <<>>, <<>>)
MultiLineString(ls)    == Geom("MultiLineString", <<>>, ls, <<>>, <<>>)
Polygon(rings)         == Geom("Polygon", <<>>, rings, <<>>, <<>>)
MultiPolygon(polys)    == Geom("MultiPolygon", <<>>, <<>>, polys, <<>>)
Collection(members)    == Geom("Collection", <<>>, <<>>, <<>>, members)
Bound(min, max)        == Geom("Bound", <<min, max>>, <<>>, <<>>, <<>>)

\* `after` is the float64 that lies behind the xy vector in the buffer: what a
\* read of Xy(XyLength()) gives, flatbuffers checking no index.  A record
\* built by geometryToFGB is never read there.
RawFGB(type, xy, after, ends, parts) ==
    [type |-> type, xy |-> xy, after |-> after, ends |-> ends, parts |-> parts]

FGB(type, xy, ends, parts) == RawFGB(type, xy, 0, ends, parts)
NilFGB == FGB("nil", <<>>, <<>>, <<>>)

\* fgbGeom.Xy(i), i 0-based
Xy(fgbGeom, i) ==
    IF i < Len(fgbGeom.xy) THEN fgbGeom.xy[i + 1] ELSE fgbGeom.after

lineStringToXY(ls) == [i \in 1..(2 * Len(ls)) |-> ls[(i + 1) \div 2][2 - (i % 2)]]

ringToXY(r) == [i \in 1..(2 * Len(r)) |-> r[(i + 1) \div 2][2 - (i % 2)]]

\* the loop with the count of each line stored, not the cumulative count
RECURSIVE xyEndsLoop_counts(_, _, _, _)
xyEndsLoop_counts(lines, xy, ends, cumulative) ==
    IF lines = <<>> THEN [xy |-> xy, ends |-> ends]
    ELSE xyEndsLoop_counts(Tail(lines), xy \o lineStringToXY(Head(lines)),
                           Append(ends, Len(Head(lines))),
                           cumulative + Len(Head(lines)))

\* the second loop of multiLineStringToXYEnds and of polygonToXYEnds
RECURSIVE xyEndsLoop(_, _, _, _)
xyEndsLoop(lines, xy, ends, cumulative) ==
    IF lines = <<>> THEN [xy |-> xy, ends |-> ends]
    ELSE xyEndsLoop(Tail(lines), xy \o lineStringToXY(Head(lines)),
                    Append(ends, cumulative + Len(Head(lines))),
                    cumulative + Len(Head(lines)))

multiLineStringToXYEnds(mls) == xyEndsLoop(mls, <<>>, <<>>, 0)

polygonToXYEnds(poly) == xyEndsLoop(poly, <<>>, <<>>, 0)

\* the ring left open: the first corner is not repeated
boundToPolygon_open(b) ==
    LET min == b.pts[1]
        max == b.pts[2]
    IN <<<<min, <<max[1], min[2]>>, max, <<min[1], max[2]>>>>>>

boundToPolygon(b) ==
    LET min == b.pts[1]
        max == b.pts[2]
    IN <<<<min, <<max[1], min[2]>>, max, <<min[1], max[2]>>, min>>>>

RECURSIVE geometryToFGB(_)
RECURSIVE collectionToParts(_)
\* the loop of the Collection case: a member that converts to nil is left out
collectionToParts(children) ==
    IF children = <<>> THEN <<>>
    ELSE LET childGeom == geometryToFGB(Head(children))
         IN (IF childGeom.type = "nil" THEN <<>> ELSE <<childGeom>>)
                \o collectionToParts(Tail(children))

geometryToFGB(geom) ==
    CASE geom.t = "Point" -> FGB("Point", geom.pts[1], <<>>, <<>>)
      [] geom.t = "MultiPoint" -> FGB("MultiPoint", lineStringToXY(geom.pts), <<>>, <<>>)
      [] geom.t = "LineString" -> FGB("LineString", lineStringToXY(geom.pts), <<>>, <<>>)
      [] geom.t = "MultiLineString" ->
            LET r == multiLineStringToXYEnds(geom.lines)
            IN FGB("MultiLineString", r.xy, r.ends, <<>>)
      [] geom.t = "Ring" -> FGB("Polygon", ringToXY(geom.pts), <<Len(geom.pts)>>, <<>>)
      [] geom.t = "Polygon" ->
            LET r == polygonToXYEnds(geom.lines)
            IN FGB("Polygon", r.xy, r.ends, <<>>)
      [] geom.t = "MultiPolygon" ->
            FGB("MultiPolygon", <<>>, <<>>,
                [i \in 1..Len(geom.polys) |->
                    LET r == polygonToXYEnds(geom.polys[i])
                    IN FGB("Polygon", r.xy, r.ends, <<>>)])
      [] geom.t = "Collection" ->
            FGB("GeometryCollection", <<>>, <<>>, collectionToParts(geom.members))
      [] geom.t = "Bound" ->
            LET r == polygonToXYEnds(boundToPolygon(geom))
            IN FGB("Polygon", r.xy, r.ends, <<>>)
      [] OTHER -> NilFGB

\* the points of index from..(to - 1), 0-based, of an xy vector
PointsOfXY(xy, from, to) ==
    IF to <= from THEN <<>>
    ELSE [k \in 1..(to - from) |-> <<xy[2 * (from + k - 1) + 1], xy[2 * (from + k - 1) + 2]>>]

pointFromXY(fgbGeom) ==
    IF Len(fgbGeom.xy) < 2 THEN Point(<<0, 0>>)
    ELSE Point(<<fgbGeom.xy[1], fgbGeom.xy[2]>>)

\* the loop `for i := 0; i < xyLen; i += 2` appending {Xy(i), Xy(i + 1)}:
\* with an odd xyLen its last round reads Xy(xyLen)
pointsLoop(fgbGeom) ==
    [k \in 1..((Len(fgbGeom.xy) + 1) \div 2) |->
        <<Xy(fgbGeom, 2 * (k - 1)), Xy(fgbGeom, 2 * (k - 1) + 1)>>]

\* the indexes that loop reads
pointsLoopReads(fgbGeom) ==
    UNION {{2 * (k - 1), 2 * (k - 1) + 1} : k \in 1..((Len(fgbGeom.xy) + 1) \div 2)}

multiPointFromXY(fgbGeom) ==
    IF Len(fgbGeom.xy) < 2 THEN MultiPoint(<<>>)
    ELSE MultiPoint(pointsLoop(fgbGeom))

lineStringFromXY(fgbGeom) ==
    IF Len(fgbGeom.xy) < 2 THEN LineString(<<>>)
    ELSE LineString(pointsLoop(fgbGeom))

\* the loop over ends of multiLineStringFromXYEnds and of polygonFromXYEnds:
\* line i holds the points start <= j < end with 2j + 1 < xyLen
RECURSIVE endsLoop(_, _, _, _)
endsLoop(xy, ends, i, start) ==
    IF i > Len(ends) THEN <<>>
    ELSE LET end == ends[i]
             hi == IF end < Len(xy) \div 2 THEN end ELSE Len(xy) \div 2
         IN <<PointsOfXY(xy, start, hi)>> \o endsLoop(xy, ends, i + 1, end)

multiLineStringFromXYEnds(fgbGeom) ==
    IF Len(fgbGeom.xy) < 2 \/ Len(fgbGeom.ends) = 0
    THEN IF Len(fgbGeom.xy) >= 2
         THEN MultiLineString(<<lineStringFromXY(fgbGeom).pts>>)
         ELSE MultiLineString(<<>>)
    ELSE MultiLineString(endsLoop(fgbGeom.xy, fgbGeom.ends, 1, 0))

polygonFromXYEnds(fgbGeom) ==
    IF Len(fgbGeom.xy) < 2 THEN Polygon(<<>>)
    ELSE IF Len(fgbGeom.ends) = 0
    THEN Polygon(<<pointsLoop(fgbGeom)>>)
    ELSE Polygon(endsLoop(fgbGeom.xy, fgbGeom.ends, 1, 0))

multiPolygonFromParts(fgbGeom) ==
    IF Len(fgbGeom.parts) = 0
    THEN LET poly == polygonFromXYEnds(fgbGeom).lines
         IN IF Len(poly) > 0 THEN MultiPolygon(<<poly>>) ELSE MultiPolygon(<<>>)
    ELSE MultiPolygon(SelectSeq([i \in 1..Len(fgbGeom.parts) |->
                                    polygonFromXYEnds(fgbGeom.parts[i]).lines],
                                LAMBDA poly : Len(poly) > 0))

RECURSIVE geometryFromFGB(_)
collectionFromParts(fgbGeom) ==
    IF Len(fgbGeom.parts) = 0 THEN Collection(<<>>)
    ELSE Collection(SelectSeq([i \in 1..Len(fgbGeom.parts) |->
                                  geometryFromFGB(fgbGeom.parts[i])],
                              LAMBDA g : g.t # "nil"))

geometryFromFGB(fgbGeom) ==
    CASE fgbGeom.type = "Point" -> pointFromXY(fgbGeom)
      [] fgbGeom.type = "MultiPoint" -> multiPointFromXY(fgbGeom)
      [] fgbGeom.type = "LineString" -> lineStringFromXY(fgbGeom)
      [] fgbGeom.type = "MultiLineString" -> multiLineStringFromXYEnds(fgbGeom)
      [] fgbGeom.type = "Polygon" -> polygonFromXYEnds(fgbGeom)
      [] fgbGeom.type = "MultiPolygon" -> multiPolygonFromParts(fgbGeom)
      [] fgbGeom.type = "GeometryCollection" -> collectionFromParts(fgbGeom)
      [] OTHER -> NilGeom

(***************************************************************************)
(* What geometryFromFGB does to memory: the reads Xy(i) it makes, each     *)
(* with the XyLength of the record read, and whether a make() of it is     *)
(* given the capacity end - start of a decreasing ends pair, which wraps   *)
(* in uint32.                                                              *)
(***************************************************************************)
ReadsOf(fgbGeom, indexes) == {[len |-> Len(fgbGeom.xy), i |-> i] : i \in indexes}

\* the indexes the loop over ends reads: 2j and 2j + 1 for start <= j < end
\* with 2j + 1 < xyLen
RECURSIVE endsLoopReads(_, _, _, _)
endsLoopReads(xy, ends, i, start) ==
    IF i > Len(ends) THEN {}
    ELSE LET end == ends[i]
             hi == IF end < Len(xy) \div 2 THEN end ELSE Len(xy) \div 2
         IN UNION {{2 * j, 2 * j + 1} : j \in start..(hi - 1)}
                \cup endsLoopReads(xy, ends, i + 1, end)

lineStringReads(fgbGeom) ==
    IF Len(fgbGeom.xy) < 2 THEN {} ELSE ReadsOf(fgbGeom, pointsLoopReads(fgbGeom))

polygonReads(fgbGeom) ==
    IF Len(fgbGeom.xy) < 2 THEN {}
    ELSE IF Len(fgbGeom.ends) = 0 THEN ReadsOf(fgbGeom, pointsLoopReads(fgbGeom))
    ELSE ReadsOf(fgbGeom, endsLoopReads(fgbGeom.xy, fgbGeom.ends, 1, 0))

RECURSIVE xyReads(_)
xyReads(fgbGeom) ==
    CASE fgbGeom.type = "Point" ->
            IF Len(fgbGeom.xy) < 2 THEN {} ELSE ReadsOf(fgbGeom, {0, 1})
      [] fgbGeom.type \in {"MultiPoint", "LineString"} -> lineStringReads(fgbGeom)
      [] fgbGeom.type = "MultiLineString" ->
            IF Len(fgbGeom.xy) < 2 \/ Len(fgbGeom.ends) = 0 THEN lineStringReads(fgbGeom)
            ELSE ReadsOf(fgbGeom, endsLoopReads(fgbGeom.xy, fgbGeom.ends, 1, 0))
      [] fgbGeom.type = "Polygon" -> polygonReads(fgbGeom)
      [] fgbGeom.type = "MultiPolygon" ->
            IF Len(fgbGeom.parts) = 0 THEN polygonReads(fgbGeom)
            ELSE UNION {polygonReads(fgbGeom.parts[i]) : i \in 1..Len(fgbGeom.parts)}
      [] fgbGeom.type = "GeometryCollection" ->
            UNION {xyReads(fgbGeom.parts[i]) : i \in 1..Len(fgbGeom.parts)}
      [] OTHER -> {}

\* make(orb.Ring, 0, end-start) in the loop over ends, with end < start
endsCapWraps(fgbGeom) ==
    /\ Len(fgbGeom.xy) >= 2
    /\ \E i \in 2..Len(fgbGeom.ends) : fgbGeom.ends[i] < fgbGeom.ends[i - 1]

RECURSIVE capWraps(_)
capWraps(fgbGeom) ==
    CASE fgbGeom.type \in {"MultiLineString", "Polygon"} -> endsCapWraps(fgbGeom)
      [] fgbGeom.type = "MultiPolygon" ->
            IF Len(fgbGeom.parts) = 0 THEN endsCapWraps(fgbGeom)
            ELSE \E i \in 1..Len(fgbGeom.parts) : endsCapWraps(fgbGeom.parts[i])
      [] fgbGeom.type = "GeometryCollection" ->
            \E i \in 1..Len(fgbGeom.parts) : capWraps(fgbGeom.parts[i])
      [] OTHER -> FALSE

\* the call did not return: a read behind the buffer or an allocation of
\* 2^32 - k points brought the process down
PanicGeom == Geom("panic", <<>>, <<>>, <<>>, <<>>)


(***************************************************************************)
(* The writer entry points (writer.go).  A feature of this part carries a  *)
(* geometry and no properties, so the header gets no columns; the property *)
(* side of a feature is the codec above.  The sink accepts every write.    *)
(***************************************************************************)
GeoFeature(geom) == [nil |-> FALSE, Geometry |-> geom]
NilFeature       == [nil |-> TRUE, Geometry |-> NilGeom]
FC(fs)           == [nil |-> FALSE, Features |-> fs]
NilFC            == [nil |-> TRUE, Features |-> <<>>]
Options(index)   == [nil |-> FALSE, IncludeIndex |-> index]
NilOptions       == [nil |-> TRUE, IncludeIndex |-> FALSE]
DefaultOptions   == Options(TRUE)

\* what a call returns and leaves behind: the error, the number of
\* flatbuffers builders it created, and the files that reached the sink
Output(err, builders, sink) == [err |-> err, builders |-> builders, sink |-> sink]
NoOutput == Output("none", 0, <<>>)

\* what writer.NewWriter is handed and writes: the header's geometry type,
\* includeIndex, and the features the generator yields
FileOf(geomType, includeIndex, records) ==
    [GeometryType |-> geomType, IncludeIndex |-> includeIndex, Features |-> records]

orbToFGBGeometryType(geom) ==
    CASE geom.t = "Point" -> "Point"
      [] geom.t = "MultiPoint" -> "MultiPoint"
      [] geom.t = "LineString" -> "LineString"
      [] geom.t = "MultiLineString" -> "MultiLineString"
      [] geom.t = "Ring" -> "Polygon"
      [] geom.t = "Polygon" -> "Polygon"
      [] geom.t = "MultiPolygon" -> "MultiPolygon"
      [] geom.t = "Collection" -> "GeometryCollection"
      [] geom.t = "Bound" -> "Polygon"
      [] OTHER -> "Unknown"

\* Write's loop over geometries[1:]
RECURSIVE geometryTypeLoop(_, _)
geometryTypeLoop(geomType, rest) ==
    IF rest = <<>> THEN geomType
    ELSE IF orbToFGBGeometryType(Head(rest)) # geomType THEN "Unknown"
    ELSE geometryTypeLoop(geomType, Tail(rest))

\* WriteFeatures' loop over fc.Features[1:]
RECURSIVE featureTypeLoop(_, _)
featureTypeLoop(geomType, rest) ==
    IF rest = <<>> THEN geomType
    ELSE IF Head(rest).Geometry # NilGeom
            /\ orbToFGBGeometryType(Head(rest).Geometry) # geomType THEN "Unknown"
    ELSE featureTypeLoop(geomType, Tail(rest))

\* geometryFeatureGenerator.Generate / featureCollectionGenerator.Generate,
\* called until it returns nil: a nil geometry is skipped, each other one
\* gets a builder, and one that packs to nothing is skipped
RECURSIVE generate(_)
generate(geometries) ==
    IF geometries = <<>> THEN [builders |-> 0, records |-> <<>>]
    ELSE LET rest == generate(Tail(geometries))
             geom == Head(geometries)
         IN  IF geom = NilGeom THEN rest
             ELSE [builders |-> rest.builders + 1,
                   records |-> IF geometryToFGB(geom) = NilFGB THEN rest.records
                               ELSE <<geometryToFGB(geom)>> \o rest.records]

writeWithGenerator(gen, geomType, opts) ==
    Output("nil", 1 + gen.builders, <<FileOf(geomType, opts.IncludeIndex, gen.records)>>)

Write(geometries, opts) ==
    LET o == IF opts.nil THEN DefaultOptions ELSE opts
    IN  IF Len(geometries) = 0 THEN Output("ErrNilGeometry", 0, <<>>)
        ELSE writeWithGenerator(
                 generate(geometries),
                 geometryTypeLoop(orbToFGBGeometryType(geometries[1]), Tail(geometries)),
                 o)

WriteFeatures_header_first(fc, opts) ==
    LET o  == IF opts.nil THEN DefaultOptions ELSE opts
        gs == [i \in 1..Len(fc.Features) |-> fc.Features[i].Geometry]
    IN  IF fc.nil \/ Len(fc.Features) = 0
        THEN Output("ErrNilGeometry", 1, <<FileOf("Unknown", o.IncludeIndex, <<>>)>>)
        ELSE IF \E i \in 1..Len(fc.Features) : fc.Features[i].nil
        THEN Output("panic", 0, <<>>)
        ELSE writeWithGenerator(
                 generate(gs),
                 IF gs[1] # NilGeom
                 THEN featureTypeLoop(orbToFGBGeometryType(gs[1]), Tail(fc.Features))
                 ELSE "Unknown",
                 o)

\* a nil *geojson.Feature in the collection is dereferenced (f.Geometry at
\* lines 56 and 62, f.Properties in getColumnNames) before anything is built
WriteFeatures(fc, opts) ==
    LET o  == IF opts.nil THEN DefaultOptions ELSE opts
        gs == [i \in 1..Len(fc.Features) |-> fc.Features[i].Geometry]
    IN  IF fc.nil \/ Len(fc.Features) = 0 THEN Output("ErrNilGeometry", 0, <<>>)
        ELSE IF \E i \in 1..Len(fc.Features) : fc.Features[i].nil
        THEN Output("panic", 0, <<>>)
        ELSE writeWithGenerator(
                 generate(gs),
                 IF gs[1] # NilGeom
                 THEN featureTypeLoop(orbToFGBGeometryType(gs[1]), Tail(fc.Features))
                 ELSE "Unknown",
                 o)

WriteFeature(f, opts) ==
    IF f.nil THEN Output("ErrNilGeometry", 0, <<>>)
    ELSE WriteFeatures(FC(<<f>>), opts)

(***************************************************************************)
(* Reader (reader.go).  A file is its header's IndexNodeSize and Envelope  *)
(* and its features, each a packed geometry with the box the index holds   *)
(* for it; the header's FeaturesCount is their number.                     *)
(***************************************************************************)
FileFeature(geom, box) == [geom |-> geom, box |-> box]
File(indexNodeSize, envelope, fs) ==
    [IndexNodeSize |-> indexNodeSize, Envelope |-> envelope, Features |-> fs]
NoFile == File(0, <<>>, <<>>)
NoBounds == [Min |-> <<0, 0>>, Max |-> <<0, 0>>]

\* the value and error a call returns (the geometries of the features it
\* returns), and the number of index searches it made
Result(isNil, items, err, searches) ==
    [nil |-> isNil, items |-> items, err |-> err, searches |-> searches]
NoResult == Result(TRUE, <<>>, "none", 0)

Intersects(box, minX, minY, maxX, maxY) ==
    box[1] <= maxX /\ box[3] >= minX /\ box[2] <= maxY /\ box[4] >= minY

\* r.fgb.Search: the features whose box intersects the query
fgbSearch(file, minX, minY, maxX, maxY) ==
    SelectSeq(file.Features, LAMBDA e : Intersects(e.box, minX, minY, maxX, maxY))

\* convertFeature on each feature found; a nil result is not appended
RECURSIVE convertFeatures(_)
convertFeatures(found) ==
    IF found = <<>> THEN <<>>
    ELSE LET orbGeom == geometryFromFGB(Head(found).geom)
         IN  (IF orbGeom = NilGeom THEN <<>> ELSE <<orbGeom>>) \o convertFeatures(Tail(found))

ReadAll(file) ==
    IF Len(file.Features) = 0 THEN Result(FALSE, <<>>, "nil", 0)
    ELSE IF file.IndexNodeSize > 0 /\ Len(file.Envelope) >= 4
    THEN Result(FALSE,
                convertFeatures(fgbSearch(file, file.Envelope[1], file.Envelope[2],
                                          file.Envelope[3], file.Envelope[4])),
                "nil", 1)
    ELSE Result(FALSE, <<>>, "nil", 0)

ReadGeometries(file) ==
    LET r == ReadAll(file)
    IN  Result(FALSE, SelectSeq(r.items, LAMBDA g : g # NilGeom), "nil", r.searches)

Search_index_first(file, bounds) ==
    IF file.IndexNodeSize = 0 THEN Result(TRUE, <<>>, "ErrNoIndex", 1)
    ELSE Result(FALSE,
                convertFeatures(fgbSearch(file, bounds.Min[1], bounds.Min[2],
                                          bounds.Max[1], bounds.Max[2])),
                "nil", 1)

Search(file, bounds) ==
    IF file.IndexNodeSize = 0 THEN Result(TRUE, <<>>, "ErrNoIndex", 0)
    ELSE Result(FALSE,
                convertFeatures(fgbSearch(file, bounds.Min[1], bounds.Min[2],
                                          bounds.Max[1], bounds.Max[2])),
                "nil", 1)

SearchGeometries(file, bounds) ==
    LET r == Search(file, bounds)
    IN  IF r.err # "nil" THEN Result(TRUE, <<>>, r.err, r.searches)
        ELSE Result(FALSE, SelectSeq(r.items, LAMBDA g : g # NilGeom), "nil", r.searches)


\* one call of Generate (writer.go:164, 199) with the generator's index at
\* `index`: the feature returned (its packed geometry, NilFGB for nil) and
\* the index the call leaves
RECURSIVE Generate_stop_at_skip(_, _)
Generate_stop_at_skip(items, index) ==
    IF index >= Len(items) THEN [out |-> NilFGB, index |-> index]
    ELSE LET f == items[index + 1]
         IN  IF f.nil \/ f.Geometry = NilGeom
             THEN [out |-> NilFGB, index |-> index + 1]
             ELSE IF geometryToFGB(f.Geometry) = NilFGB
             THEN [out |-> NilFGB, index |-> index + 1]
             ELSE [out |-> geometryToFGB(f.Geometry), index |-> index + 1]

RECURSIVE Generate(_, _)
Generate(items, index) ==
    IF index >= Len(items) THEN [out |-> NilFGB, index |-> index]
    ELSE LET f == items[index + 1]
         IN  IF f.nil \/ f.Geometry = NilGeom THEN Generate(items, index + 1)
             ELSE IF geometryToFGB(f.Geometry) = NilFGB THEN Generate(items, index + 1)
             ELSE [out |-> geometryToFGB(f.Geometry), index |-> index + 1]


PromIdle == promA = NoType /\ promB = NoType /\ promLog = {}
InferIdle == features = <<>> /\ infRuns = <<>>
ValueIdle ==
    /\ val = Nil /\ valColType = NoType /\ valInferred = NoType
    /\ valBytes = <<>> /\ valRead = Read(Nil, 0) /\ valPc = "idle"
CodecIdle ==
    /\ recIdx = 0 /\ schema = <<>> /\ schemaMap = [n \in Names |-> -1]
    /\ propBytes = [bytes |-> <<>>, panic |-> FALSE]
    /\ rawData = <<>> /\ fileHeader = NilHeader
    /\ decoded = Decoded(TRUE, NoProps, 0, 0, FALSE) /\ codecPc = "idle"
GeomIdle ==
    /\ inGeom = NilGeom /\ packed = NilFGB /\ outGeom = NilGeom /\ xyRead = {}
    /\ geomPc = "idle"
BBoxIdle == boxIn = <<>> /\ boxOut = <<>> /\ boxPc = "idle"
WriterIdle ==
    /\ wCall = "none" /\ wGeoms = <<>> /\ wFc = NilFC /\ wFeat = NilFeature
    /\ wOpts = NilOptions /\ wOut = NoOutput /\ wPc = "idle"
ReaderIdle == rFile = NoFile /\ rBounds = NoBounds /\ rOut = NoResult /\ rPc = "idle"
PureIdle == encRuns = <<>>
GenIdle == genKind = "none" /\ genItems = <<>> /\ genIndex = 0 /\ genOut = <<>>
IoIdle == BBoxIdle /\ WriterIdle /\ ReaderIdle /\ PureIdle /\ GenIdle

PromoteInit ==
    /\ promA \in ColumnTypes
    /\ promB \in ColumnTypes
    /\ promLog = {}
    /\ InferIdle /\ ValueIdle /\ CodecIdle /\ GeomIdle /\ IoIdle

PromoteCall ==
    \E x, y \in {promA, promB} :
        /\ ~ \E e \in promLog : e.a = x /\ e.b = y
        /\ promLog' = promLog \cup {[a |-> x, b |-> y, r |-> promoteColumnType(x, y)]}
        /\ UNCHANGED <<promA, promB, inferVars, valueVars, codecVars, geomVars, ioVars>>

PromoteNext == PromoteCall

SpecPromote == PromoteInit /\ [][PromoteNext]_vars

\* C10: promoteColumnType is commutative and idempotent over the whole
\* ColumnType enumeration: whenever both promote(a, b) and promote(b, a) have
\* been computed they agree, and promote(a, a) is a.
C10_PromoteCommutativeIdempotent ==
    \A e1, e2 \in promLog :
        /\ (e1.a = e2.b /\ e1.b = e2.a) => e1.r = e2.r
        /\ e1.a = e1.b => e1.r = e1.a

\* both orders of a pair outside the numeric lattice, and a self-promotion
C10_Witness ==
    /\ [a |-> "DateTime", b |-> "Binary", r |-> "Json"] \in promLog
    /\ [a |-> "Binary", b |-> "DateTime", r |-> "Json"] \in promLog
    /\ [a |-> "Binary", b |-> "Binary", r |-> "Binary"] \in promLog

(***************************************************************************)
(* Schema inference: inferColumns run twice on the same batch.             *)
(***************************************************************************)
InferInit ==
    /\ features \in Batches(InferValues, MaxFeatures)
    /\ infRuns = <<>>
    /\ PromIdle /\ ValueIdle /\ CodecIdle /\ GeomIdle /\ IoIdle

InferColumnsCall ==
    /\ Len(infRuns) < 2
    /\ \E iter \in IterOrders(features) :
          infRuns' = Append(infRuns, inferColumns(features, iter))
    /\ UNCHANGED <<features, promVars, valueVars, codecVars, geomVars, ioVars>>

InferNext == InferColumnsCall

SpecInfer == InferInit /\ [][InferNext]_vars

\* index of the first feature whose properties hold name n (0: none does)
FirstFeature(n) ==
    IF \E i \in 1..Len(features) : n \in Keys(features[i].props)
    THEN CHOOSE i \in 1..Len(features) :
            /\ n \in Keys(features[i].props)
            /\ \A j \in 1..(i - 1) : n \notin Keys(features[j].props)
    ELSE 0

ColumnNames(cols) == [i \in 1..Len(cols) |-> cols[i].name]

\* C6: two runs of inferColumns on the same features return the identical
\* ordered column list (same names at the same indexes, same types).
C6_SchemaDeterministic ==
    Len(infRuns) = 2 => infRuns[1] = infRuns[2]

\* C7: columns are in first-occurrence order across the features (a name first
\* seen in an earlier feature has the smaller column index), and every name
\* that occurs yields exactly one column.
C7_FirstOccurrenceOrder ==
    \A r \in 1..Len(infRuns) :
        LET cols == infRuns[r] IN
        /\ \A n \in Names :
              Cardinality({i \in 1..Len(cols) : cols[i].name = n})
                  = IF FirstFeature(n) > 0 THEN 1 ELSE 0
        /\ \A x, y \in Names :
              (FirstFeature(x) > 0 /\ FirstFeature(x) < FirstFeature(y)) =>
                  IndexOf(ColumnNames(cols), x) < IndexOf(ColumnNames(cols), y)

\* a run over a batch where "a" first occurs in feature 1 and "b" in feature 2,
\* feature 2 holding "a" again
C7_Witness ==
    /\ Len(infRuns) >= 1
    /\ Len(features) = 2
    /\ FirstFeature("a") = 1
    /\ FirstFeature("b") = 2
    /\ "a" \in Keys(features[2].props)
    /\ Len(infRuns[1]) = 2

\* the inferred types of the non-null values of column n, in feature order
RECURSIVE NonNullTypes(_, _)
NonNullTypes(fs, n) ==
    IF fs = <<>> THEN <<>>
    ELSE (IF Head(fs).props[n] \in {Absent, Nil} THEN <<>>
          ELSE <<inferColumnType(Head(fs).props[n])>>) \o NonNullTypes(Tail(fs), n)

RECURSIVE PromoteAll(_)
PromoteAll(ts) ==
    IF Len(ts) = 1 THEN ts[1]
    ELSE promoteColumnType(PromoteAll(SubSeq(ts, 1, Len(ts) - 1)), ts[Len(ts)])

\* C8: null values do not take part in promotion: a column's type is the
\* promotion of its non-null values' types only, and String when the column is
\* null in every feature.
C8_NullNotPromoted ==
    \A r \in 1..Len(infRuns) : \A i \in 1..Len(infRuns[r]) :
        LET col == infRuns[r][i]
            ts == NonNullTypes(features, col.name)
        IN col.type = IF ts = <<>> THEN "String" ELSE PromoteAll(ts)

(***************************************************************************)
(* One value through inferColumnType, writePropertyValue and               *)
(* readPropertyValue, in a column of a type its column can be given.       *)
(***************************************************************************)
BoolTrue   == GoVal("bool", <<1>>)
BoolFalse  == GoVal("bool", <<0>>)
IntNeg     == GoVal("int", IntLE(-1, 8))
IntWide    == GoVal("int", <<0, 0, 0, 0, 1, 0, 0, 0>>)            \* 1 << 32
Int8Val    == GoVal("int8", IntLE(-5, 1))
Int16Val   == GoVal("int16", IntLE(300, 2))
Int32Val   == GoVal("int32", IntLE(10, 4))
Int64Small == GoVal("int64", IntLE(10, 8))
Int64Wide  == GoVal("int64", <<255, 227, 11, 84, 2, 0, 0, 0>>)   \* 9999999999
UintSmall  == GoVal("uint", IntLE(10, 8))
UintWide   == GoVal("uint", <<5, 0, 0, 0, 1, 0, 0, 0>>)           \* 1 << 32 + 5
Uint8Val   == GoVal("uint8", <<200>>)
Uint16Val  == GoVal("uint16", IntLE(300, 2))
Uint32Val  == GoVal("uint32", <<255, 255, 255, 255>>)
Uint64Small == GoVal("uint64", IntLE(10, 8))
Uint64Wide == GoVal("uint64", <<0, 0, 0, 0, 0, 0, 0, 128>>)      \* 1 << 63
Float2p5   == GoVal("float32", <<0, 0, 32, 64>>)                 \* 2.5
StrHi      == GoVal("string", <<104, 105>>)                      \* "hi"
StrEmpty   == GoVal("string", <<>>)

AllValues ==
    {Nil, BoolTrue, BoolFalse, Int10, IntNeg, IntWide, Int8Val, Int16Val, Int32Val,
     Int64Small, Int64Wide, UintSmall, UintWide, Uint8Val, Uint16Val, Uint32Val,
     Uint64Small, Uint64Wide, Float2p5, Float3p5, StrHi, StrEmpty, EmptyMap, EmptySlice}

\* the types inferColumns can give the column of a value v: the promotion of
\* v's type with the types of the other values of the column
ColumnTypesFor(v) ==
    {promoteColumnType(inferColumnType(v), inferColumnType(w)) : w \in AllValues}

ValueInit ==
    /\ val \in AllValues
    /\ valColType \in ColumnTypesFor(val)
    /\ valInferred = NoType
    /\ valBytes = <<>>
    /\ valRead = Read(Nil, 0)
    /\ valPc = "infer"
    /\ PromIdle /\ InferIdle /\ CodecIdle /\ GeomIdle /\ IoIdle

\* inferColumns, line 38
InferValue ==
    /\ valPc = "infer"
    /\ valInferred' = inferColumnType(val)
    /\ valPc' = IF val = Nil THEN "done" ELSE "write"
    /\ UNCHANGED <<val, valColType, valBytes, valRead, promVars, inferVars, codecVars, geomVars, ioVars>>

\* encodeProperties, lines 159-175: a nil value is skipped, any other written
WriteValue ==
    /\ valPc = "write"
    /\ valBytes' = writePropertyValue(val, Column("a", valColType))
    /\ valPc' = "read"
    /\ UNCHANGED <<val, valColType, valInferred, valRead, promVars, inferVars, codecVars, geomVars, ioVars>>

\* decodeProperties, line 326
ReadValue ==
    /\ valPc = "read"
    /\ valRead' = readPropertyValue(valBytes, valColType)
    /\ valPc' = "done"
    /\ UNCHANGED <<val, valColType, valInferred, valBytes, promVars, inferVars, codecVars, geomVars, ioVars>>

ValueNext == InferValue \/ WriteValue \/ ReadValue

SpecValue == ValueInit /\ [][ValueNext]_vars

FitsUint32(bytes) == SubSeq(bytes, 5, 8) = <<0, 0, 0, 0>>

\* C9: inference by range.  A signed integer within the 32-bit signed range
\* is Int and a wider one Long; an unsigned integer within the 32-bit
\* unsigned range is UInt and a wider one ULong; bool is Bool, text String,
\* maps and lists Json.  (For a value of the fixed 64-bit types int64 and
\* uint64 that lies within the 32-bit range, both the 32-bit and the 64-bit
\* column type are accepted here: the README maps int64 to Long.)
C9_InferByRange ==
    valInferred # NoType =>
        /\ val.k \in SignedKinds =>
              IF ~FitsInt32(SignExtend(val.b, 8)) THEN valInferred = "Long"
              ELSE IF val.k = "int64" THEN valInferred \in {"Int", "Long"}
              ELSE valInferred = "Int"
        /\ val.k \in UnsignedKinds =>
              IF ~FitsUint32(ZeroExtend(val.b, 8)) THEN valInferred = "ULong"
              ELSE IF val.k = "uint64" THEN valInferred \in {"UInt", "ULong"}
              ELSE valInferred = "UInt"
        /\ val.k = "bool" => valInferred = "Bool"
        /\ val.k = "string" => valInferred = "String"
        /\ val.k \in {"map", "slice"} => valInferred = "Json"

(***************************************************************************)
(* The property codec on a batch: the schema is inferred from the batch,   *)
(* one feature's properties are encoded against it, and the bytes are      *)
(* decoded against the header that holds the schema.                       *)
(***************************************************************************)
CodecValues == {Nil, Int10, IntWide, Float3p5}

CodecInit ==
    /\ features \in Batches(CodecValues, MaxFeatures) \ {<<>>}
    /\ recIdx = 0
    /\ infRuns = <<>>
    /\ schema = <<>>
    /\ schemaMap = [n \in Names |-> -1]
    /\ propBytes = [bytes |-> <<>>, panic |-> FALSE]
    /\ rawData = <<>>
    /\ fileHeader = NilHeader
    /\ decoded = Decoded(TRUE, NoProps, 0, 0, FALSE)
    /\ codecPc = "infer"
    /\ PromIdle /\ ValueIdle /\ GeomIdle /\ IoIdle

\* WriteFeatures and writeWithGenerator: the column names come from one pass
\* over the features (getColumnNames), the columns from another
\* (inferColumns), and the name index is built from the names
CodecInfer ==
    /\ codecPc = "infer"
    /\ \E nameIter \in IterOrders(features), iter \in IterOrders(features) :
          LET columnNames == getColumnNames(features, nameIter)
          IN IF Len(features) > 0 /\ Len(columnNames) > 0
             THEN /\ schema' = inferColumns(features, iter)
                  /\ schemaMap' = buildColumnMap(schema', columnNames)
             ELSE /\ schema' = <<>>
                  /\ schemaMap' = [n \in Names |-> -1]
    /\ codecPc' = "encode"
    /\ UNCHANGED <<features, infRuns, recIdx, propBytes, rawData, fileHeader, decoded,
                   promVars, valueVars, geomVars, ioVars>>

\* encodeProperties on one feature of the batch; the reader is handed the
\* bytes, and the columns in the header
CodecEncode ==
    /\ codecPc = "encode"
    /\ \E i \in 1..Len(features) :
          /\ recIdx' = i
          /\ \E order \in Perms(Keys(features[i].props)) :
                propBytes' = encodeProperties(features[i].props, schema, schemaMap, order)
    /\ rawData' = propBytes'.bytes
    /\ fileHeader' = Header(schema)
    /\ codecPc' = IF propBytes'.panic THEN "panic" ELSE "decode"
    /\ UNCHANGED <<features, infRuns, schema, schemaMap, decoded,
                   promVars, valueVars, geomVars, ioVars>>

\* the stored bytes are cut short to a proper prefix
TruncateData ==
    /\ codecPc = "decode"
    /\ \E k \in 0..(Len(rawData) - 1) : rawData' = SubSeq(rawData, 1, k)
    /\ codecPc' = "decode-cut"
    /\ UNCHANGED <<features, infRuns, recIdx, schema, schemaMap, propBytes, fileHeader,
                   decoded, promVars, valueVars, geomVars, ioVars>>

DecodeCall ==
    /\ codecPc \in {"decode", "decode-cut"}
    /\ decoded' = decodeProperties(rawData, fileHeader)
    /\ codecPc' = "done"
    /\ UNCHANGED <<features, infRuns, recIdx, schema, schemaMap, propBytes, rawData,
                   fileHeader, promVars, valueVars, geomVars, ioVars>>

CodecNext == CodecInfer \/ CodecEncode \/ DecodeCall

SpecCodec == CodecInit /\ [][CodecNext]_vars

(***************************************************************************)
(* Truncation: a single feature is encoded against its own schema, so      *)
(* every value is written in its column's type, and a prefix of the bytes  *)
(* is decoded.                                                             *)
(***************************************************************************)
TruncValues == {Nil, BoolTrue, Int10, Float3p5, StrHi, EmptyMap}

TruncInit ==
    /\ features \in {<<Feature(p)>> : p \in PropMaps(TruncValues)}
    /\ recIdx = 0
    /\ infRuns = <<>>
    /\ schema = <<>>
    /\ schemaMap = [n \in Names |-> -1]
    /\ propBytes = [bytes |-> <<>>, panic |-> FALSE]
    /\ rawData = <<>>
    /\ fileHeader = NilHeader
    /\ decoded = Decoded(TRUE, NoProps, 0, 0, FALSE)
    /\ codecPc = "infer"
    /\ PromIdle /\ ValueIdle /\ GeomIdle /\ IoIdle

TruncNext == CodecInfer \/ CodecEncode \/ TruncateData \/ DecodeCall

SpecTrunc == TruncInit /\ [][TruncNext]_vars

(***************************************************************************)
(* decodeProperties on arbitrary bytes: 0x00, the digit '1' and 0xFF,      *)
(* against a header of one column of any type, or a nil header.            *)
(***************************************************************************)
DecodeAlphabet == {0, 49, 255}

ByteSeqs(n) == UNION {[1..len -> DecodeAlphabet] : len \in 0..n}

DecodeHeaders == {NilHeader} \cup {Header(<<Column("a", t)>>) : t \in ColumnTypes}

DecodeInit ==
    /\ rawData \in ByteSeqs(MaxData)
    /\ fileHeader \in DecodeHeaders
    /\ features = <<>>
    /\ infRuns = <<>>
    /\ recIdx = 0
    /\ schema = <<>>
    /\ schemaMap = [n \in Names |-> -1]
    /\ propBytes = [bytes |-> <<>>, panic |-> FALSE]
    /\ decoded = Decoded(TRUE, NoProps, 0, 0, FALSE)
    /\ codecPc = "decode"
    /\ PromIdle /\ ValueIdle /\ GeomIdle /\ IoIdle

DecodeNext == DecodeCall

SpecDecode == DecodeInit /\ [][DecodeNext]_vars

(***************************************************************************)
(* Properties of the codec.                                                *)
(***************************************************************************)
\* the entries of the encoded feature that are non-null and whose names are
\* columns of the schema
Written ==
    {n \in Names : recIdx > 0 /\ features[recIdx].props[n] \notin {Absent, Nil} /\ schemaMap[n] # -1}

\* every name of the index is mapped to the position of the column of that name
MapConsistent ==
    \A n \in Names : schemaMap[n] # -1 =>
        schemaMap[n] < Len(schema) /\ schema[schemaMap[n] + 1].name = n

\* a value re-typed to a numeric column type, by the conversions of the codec
Retyped(v, t) ==
    CASE t = "Int"    -> GoVal("int32", Truncate(toInt64(v).v, 4))
      [] t = "Long"   -> GoVal("int64", toInt64(v).v)
      [] t = "Double" -> GoVal("float64", toFloat64(v).v)

\* C1: property round trip.  Decoding the encoding of a record of the batch
\* against the schema inferred from the batch (the name index being that of
\* the schema) does not fail and gives exactly
\* the record's non-null entries whose names are columns, each value of a
\* column of type Int, Long or Double re-typed to that type (10 in a Double
\* column decodes as the 64-bit float 10).
C1_PropertyRoundTrip ==
    (codecPc = "done" /\ rawData = propBytes.bytes /\ MapConsistent) =>
        /\ ~decoded.panic
        /\ \A n \in Names :
              IF n \notin Written THEN decoded.props[n] = Absent
              ELSE LET t == schema[schemaMap[n] + 1].type
                   IN IF t \in {"Int", "Long", "Double"}
                      THEN decoded.props[n] = Retyped(features[recIdx].props[n], t)
                      ELSE decoded.props[n] # Absent

\* the width of the value bytes of a fixed-width column type
TypeWidth(t) ==
    CASE t \in {"Bool", "Byte", "UByte"}     -> 1
      [] t \in {"Short", "UShort"}           -> 2
      [] t \in {"Int", "UInt", "Float"}      -> 4
      [] t \in {"Long", "ULong", "Double"}   -> 8

\* the number of value bytes at the head of rest when they are laid out as
\* type t, 0 when they are not
LayoutWidth(rest, t) ==
    CASE t \in {"String", "Json", "DateTime"} -> IndexByte0(rest) + 1
      [] t = "Binary" ->
            IF Len(rest) >= 4 /\ rest[4] = 0 /\ rest[3] = 0
              /\ Len(rest) >= 4 + rest[1] + 256 * rest[2]
            THEN 4 + rest[1] + 256 * rest[2] ELSE 0
      [] OTHER -> IF Len(rest) >= TypeWidth(t) THEN TypeWidth(t) ELSE 0

\* the column indexes of the groups [index][value laid out as the column's
\* declared type] that bytes is made of, ended by -1 where it is not
RECURSIVE GroupIndexes(_, _)
GroupIndexes(bytes, cols) ==
    IF bytes = <<>> THEN <<>>
    ELSE IF Len(bytes) < 2 \/ bytes[1] + 256 * bytes[2] >= Len(cols) THEN <<-1>>
    ELSE LET idx == bytes[1] + 256 * bytes[2]
             rest == SubSeq(bytes, 3, Len(bytes))
             w == LayoutWidth(rest, cols[idx + 1].type)
         IN IF w = 0 THEN <<-1>>
            ELSE <<idx>> \o GroupIndexes(SubSeq(rest, w + 1, Len(rest)), cols)

\* C2: the value bytes encodeProperties writes after each 2-byte column index
\* have the width and layout of the column's declared type: the bytes are
\* made of one group per written entry, each a column index followed by a
\* value of the width of that column's type.
C2_WidthOfDeclaredType ==
    (codecPc \in {"decode", "done"} /\ MapConsistent) =>
        LET g == GroupIndexes(propBytes.bytes, schema)
        IN /\ Len(g) = Cardinality(Written)
           /\ {g[i] : i \in 1..Len(g)} = {schemaMap[n] : n \in Written}

\* C3: truncation safety.  Decoding a prefix of validly encoded bytes does not
\* fail and gives a subset of the full decode: every key it holds is mapped
\* to the value the full decode maps it to.
C3_TruncationSafety ==
    (codecPc = "done" /\ MapConsistent
        /\ -1 \notin {GroupIndexes(propBytes.bytes, schema)[i] :
                        i \in 1..Len(GroupIndexes(propBytes.bytes, schema))}) =>
        /\ ~decoded.panic
        /\ \A n \in Names :
              decoded.props[n] # Absent =>
                  decoded.props[n] = decodeProperties(propBytes.bytes, fileHeader).props[n]

\* C4: decodeProperties never raises, for any bytes and any schema.
C4_DecodeNeverRaises == decoded.panic = FALSE

(***************************************************************************)
(* Geometry round trip: a geometry is converted by geometryToFGB and the   *)
(* result by geometryFromFGB.  The points of a geometry are numbered, so   *)
(* that they are distinct.                                                 *)
(***************************************************************************)
Pt(k) == <<k, k + 10>>

PointsFrom(start, n) == IF n <= 0 THEN <<>> ELSE [i \in 1..n |-> Pt(start + i - 1)]

\* lines of the given lengths, over consecutive points
RECURSIVE LinesOf(_, _)
LinesOf(lens, start) ==
    IF lens = <<>> THEN <<>>
    ELSE <<PointsFrom(start, Head(lens))>> \o LinesOf(Tail(lens), start + Head(lens))

LineShapes == UNION {[1..n -> 0..MaxPts] : n \in 0..MaxRings}

\* polygons: none, one empty ring, one ring, a ring and a hole
PolygonChoices ==
    {<<>>, <<<<>>>>, <<PointsFrom(1, MaxPts)>>, <<PointsFrom(1, MaxPts), PointsFrom(MaxPts + 1, 1)>>}

MemberChoices ==
    {Point(Pt(1)), LineString(<<>>), LineString(PointsFrom(1, MaxPts)),
     Polygon(<<PointsFrom(1, MaxPts)>>), MultiPolygon(<<>>), Collection(<<>>),
     Bound(Pt(1), Pt(2))}

\* corners of a Bound: distinct, equal (a degenerate box), and the origin
BoundCorners == {Pt(1), Pt(2), <<0, 0>>}

Geometries ==
    {Point(Pt(1))}
        \cup {Bound(min, max) : min \in BoundCorners, max \in BoundCorners}
        \cup {MultiPoint(PointsFrom(1, n)) : n \in 0..MaxPts}
        \cup {LineString(PointsFrom(1, n)) : n \in 0..MaxPts}
        \cup {Ring(PointsFrom(1, n)) : n \in 0..MaxPts}
        \cup {MultiLineString(LinesOf(l, 1)) : l \in LineShapes}
        \cup {Polygon(LinesOf(l, 1)) : l \in LineShapes}
        \cup {MultiPolygon(ps) : ps \in UNION {[1..n -> PolygonChoices] : n \in 0..MaxPolys}}
        \cup {Collection(ms) : ms \in UNION {[1..n -> MemberChoices] : n \in 0..MaxMembers}}

GeomInit ==
    /\ inGeom \in Geometries
    /\ packed = NilFGB
    /\ outGeom = NilGeom
    /\ xyRead = {}
    /\ geomPc = "pack"
    /\ PromIdle /\ InferIdle /\ ValueIdle /\ CodecIdle /\ IoIdle

Pack ==
    /\ geomPc = "pack"
    /\ packed' = geometryToFGB(inGeom)
    /\ geomPc' = "unpack"
    /\ UNCHANGED <<inGeom, outGeom, xyRead, promVars, inferVars, valueVars, codecVars, ioVars>>

\* geometryFromFGB returns, unless a read behind the xy vector or a wrapped
\* capacity stops the process: either can happen then
Unpack ==
    /\ geomPc = "unpack"
    /\ xyRead' = xyReads(packed)
    /\ \/ outGeom' = geometryFromFGB(packed)
       \/ /\ capWraps(packed) \/ \E r \in xyReads(packed) : r.i >= r.len
          /\ outGeom' = PanicGeom
    /\ geomPc' = "done"
    /\ UNCHANGED <<inGeom, packed, promVars, inferVars, valueVars, codecVars, ioVars>>

GeomNext == Pack \/ Unpack

SpecGeom == GeomInit /\ [][GeomNext]_vars

\* the geometry a round trip is to give: the geometry itself, the closed
\* 5-point polygon for a Bound, member by member for a Collection
RECURSIVE RoundTripOf(_)
RoundTripOf(g) ==
    CASE g.t = "Bound" ->
            Polygon(<<<<g.pts[1], <<g.pts[2][1], g.pts[1][2]>>, g.pts[2],
                       <<g.pts[1][1], g.pts[2][2]>>, g.pts[1]>>>>)
      [] g.t = "Collection" ->
            Collection([i \in 1..Len(g.members) |-> RoundTripOf(g.members[i])])
      [] OTHER -> g

\* C5: geometry round trip.  geometryFromFGB(geometryToFGB(G)) has G's points
\* and the same number and order of lines, rings, polygons and members, also
\* when G holds an empty line, ring or polygon; a Bound gives the closed
\* 5-point polygon.  (A bare Ring is not among the geometries of the claim.)
C5_GeometryRoundTrip ==
    (geomPc = "done" /\ inGeom.t # "Ring") => outGeom = RoundTripOf(inGeom)

(***************************************************************************)
(* Properties of promoteColumnType.                                        *)
(***************************************************************************)
\* the numeric-widening lattice, lowest first
Lattice ==
    <<"Bool", "Byte", "UByte", "Short", "UShort", "Int", "UInt", "Long", "ULong",
      "Float", "Double">>

RankIn(t) == CHOOSE i \in 1..Len(Lattice) : Lattice[i] = t

InLattice(t) == \E i \in 1..Len(Lattice) : Lattice[i] = t

\* C11: promoteColumnType follows the rank table.  For distinct a and b the
\* result is Json if either is Json, else String if either is String, else
\* the operand of higher rank when both are in the numeric lattice, and Json
\* for any remaining combination.
C11_PromoteRankTable ==
    \A e \in promLog :
        e.a # e.b =>
            e.r = (IF "Json" \in {e.a, e.b} THEN "Json"
                   ELSE IF "String" \in {e.a, e.b} THEN "String"
                   ELSE IF InLattice(e.a) /\ InLattice(e.b)
                        THEN (IF RankIn(e.a) > RankIn(e.b) THEN e.a ELSE e.b)
                   ELSE "Json")

\* Int with Long, in both orders, has been promoted
C11_Witness ==
    /\ \E e \in promLog : e.a = "Int" /\ e.b = "Long"
    /\ \E e \in promLog : e.a = "Long" /\ e.b = "Int"

(***************************************************************************)
(* encodeProperties on a record against any schema: the schema may lack    *)
(* names of the record and hold names the record lacks.                    *)
(***************************************************************************)
EncodeValues == {Nil, Int10, Float3p5, StrHi}

EncodeTypes == {"Int", "Double", "String"}

\* column lists with distinct names
SchemaChoices ==
    {<<>>}
        \cup {<<Column(n, t)>> : n \in Names, t \in EncodeTypes}
        \cup UNION {{<<Column(n1, t1), Column(n2, t2)>> :
                        n2 \in Names \ {n1}, t1 \in EncodeTypes, t2 \in EncodeTypes} :
                    n1 \in Names}

EncodeInit ==
    /\ features \in {<<Feature(p)>> : p \in PropMaps(EncodeValues)}
    /\ schema \in SchemaChoices
    /\ schemaMap = buildColumnMap(schema, ColumnNames(schema))
    /\ recIdx = 0
    /\ infRuns = <<>>
    /\ propBytes = [bytes |-> <<>>, panic |-> FALSE]
    /\ rawData = <<>>
    /\ fileHeader = NilHeader
    /\ decoded = Decoded(TRUE, NoProps, 0, 0, FALSE)
    /\ codecPc = "encode"
    /\ PromIdle /\ ValueIdle /\ GeomIdle /\ IoIdle

EncodeNext == CodecEncode

SpecEncode == EncodeInit /\ [][EncodeNext]_vars

\* the bytes of the groups of the entries in the given order
RECURSIVE GroupsOf(_)
GroupsOf(order) ==
    IF order = <<>> THEN <<>>
    ELSE NatLE(schemaMap[Head(order)], 2)
            \o writePropertyValue(features[recIdx].props[Head(order)],
                                  schema[schemaMap[Head(order)] + 1])
            \o GroupsOf(Tail(order))

\* C12: encodeProperties writes no bytes for an entry whose value is null or
\* whose name is not in the column map, and one [2-byte little-endian column
\* index][value bytes] group for every other entry; a record whose every
\* value is null or unknown encodes to no bytes, without error.
C12_SkipNullAndUnknown ==
    recIdx > 0 =>
        /\ ~propBytes.panic
        /\ \E order \in Perms(Written) : propBytes.bytes = GroupsOf(order)
        /\ Written = {} => propBytes.bytes = <<>>

\* a record of a null entry and an entry of no column has been encoded, to
\* no bytes
C12_Witness ==
    /\ recIdx > 0
    /\ features[recIdx].props["a"] = Nil
    /\ features[recIdx].props["b"] = Int10
    /\ schemaMap["a"] = 0
    /\ schemaMap["b"] = -1
    /\ propBytes.bytes = <<>>

(***************************************************************************)
(* Properties of the packing.                                              *)
(***************************************************************************)
\* the coordinates of a sequence of points, x before y
RECURSIVE CoordsOf(_)
CoordsOf(points) ==
    IF points = <<>> THEN <<>>
    ELSE <<Head(points)[1], Head(points)[2]>> \o CoordsOf(Tail(points))

\* the number of points of the first i lines
RECURSIVE VertexCount(_, _)
VertexCount(lines, i) ==
    IF i = 0 THEN 0 ELSE Len(lines[i]) + VertexCount(lines, i - 1)

\* C13: for every Polygon and every MultiLineString the packed xy is the
\* concatenation of the points of all rings (lines) in input order, of length
\* 2 * the total vertex count, and ends[i] is the vertex count of the rings
\* up to and including i: one entry per ring, non-decreasing, the last one
\* len(xy) / 2.
C13_XYEndsPrefixSums ==
    (geomPc \in {"unpack", "done"} /\ inGeom.t \in {"Polygon", "MultiLineString"}) =>
        /\ packed.xy = CoordsOf(Concat(inGeom.lines))
        /\ Len(packed.xy) = 2 * VertexCount(inGeom.lines, Len(inGeom.lines))
        /\ Len(packed.ends) = Len(inGeom.lines)
        /\ \A i \in 1..Len(packed.ends) :
              /\ packed.ends[i] = VertexCount(inGeom.lines, i)
              /\ i > 1 => packed.ends[i - 1] <= packed.ends[i]
        /\ Len(packed.ends) > 0 => 2 * packed.ends[Len(packed.ends)] = Len(packed.xy)

\* a polygon of two rings that both hold points has been packed
C13_Witness ==
    /\ geomPc = "done"
    /\ inGeom.t = "Polygon"
    /\ Len(inGeom.lines) = 2
    /\ Len(inGeom.lines[1]) > 0
    /\ Len(inGeom.lines[2]) > 0

\* C14: a Bound with corners min and max is packed with type Polygon as one
\* ring of exactly 5 points in the order (minX,minY), (maxX,minY),
\* (maxX,maxY), (minX,maxY), (minX,minY), with ends = [5]; unpacking it gives
\* a Polygon, never a Bound.
C14_BoundPackedAsPolygon ==
    (geomPc \in {"unpack", "done"} /\ inGeom.t = "Bound") =>
        LET min == inGeom.pts[1]
            max == inGeom.pts[2]
        IN /\ packed.type = "Polygon"
           /\ packed.xy = <<min[1], min[2], max[1], min[2], max[1], max[2],
                            min[1], max[2], min[1], min[2]>>
           /\ packed.ends = <<5>>
           /\ packed.parts = <<>>
           /\ geomPc = "done" => outGeom.t = "Polygon" /\ Len(outGeom.lines) = 1
                                    /\ Len(outGeom.lines[1]) = 5

\* a Bound of two distinct corners has been packed and unpacked
C14_Witness ==
    /\ geomPc = "done"
    /\ inGeom.t = "Bound"
    /\ inGeom.pts[1] = Pt(1)
    /\ inGeom.pts[2] = Pt(2)

(***************************************************************************)
(* geometryFromFGB on any record: every type tag, xy of any length (odd    *)
(* ones included), any ends, with or without a part.                       *)
(***************************************************************************)
TypeTags ==
    {"Point", "MultiPoint", "LineString", "MultiLineString", "Polygon", "MultiPolygon",
     "GeometryCollection", "Unknown"}

\* an xy vector of n numbered coordinates
XYOf(n) == IF n <= 0 THEN <<>> ELSE [i \in 1..n |-> i]

\* what may lie behind the vector
AfterValues == {0, 99}

EndsChoices == UNION {[1..n -> 0..MaxEnd] : n \in 0..2}

PartChoices ==
    {RawFGB("Polygon", XYOf(3), 0, <<>>, <<>>),
     RawFGB("Polygon", XYOf(4), 0, <<2, 1>>, <<>>),
     RawFGB("LineString", XYOf(2), 0, <<>>, <<>>)}

RawRecords ==
    {RawFGB(type, XYOf(n), after, ends, parts) :
        type \in TypeTags, n \in 0..MaxXY, after \in AfterValues, ends \in EndsChoices,
        parts \in {<<>>} \cup {<<part>> : part \in PartChoices}}

UnpackInit ==
    /\ packed \in RawRecords
    /\ inGeom = NilGeom
    /\ outGeom = NilGeom
    /\ xyRead = {}
    /\ geomPc = "unpack"
    /\ PromIdle /\ InferIdle /\ ValueIdle /\ CodecIdle /\ IoIdle

UnpackNext == Unpack

SpecUnpack == UnpackInit /\ [][UnpackNext]_vars

\* C15: unpacking performs no out-of-range read of the xy array.  For every
\* record, every type tag, every xy length (odd ones included) and every
\* ends, each read Xy(i) made by geometryFromFGB has 0 <= i < XyLength().
C15_NoOutOfRangeRead ==
    geomPc = "done" => \A r \in xyRead : 0 <= r.i /\ r.i < r.len

(***************************************************************************)
(* computeCollectionBoundingBox (geometry.go).  A float64 is a number or   *)
(* NaN; every ordered comparison with NaN is false.  Each geometry of the  *)
(* list is represented by what its Bound() returns, an orb.Bound with the  *)
(* corners Min and Max.                                                    *)
(***************************************************************************)
MaxBoxes == 3      \* geometries handed to computeCollectionBoundingBox

F(v) == [nan |-> FALSE, v |-> v]
NaN  == [nan |-> TRUE, v |-> 0]
Less(a, b) == ~ a.nan /\ ~ b.nan /\ a.v < b.v

Box(min, max) == [Min |-> min, Max |-> max]

boxLoop_first(acc, rest) == acc

RECURSIVE boxLoop(_, _)
boxLoop(acc, rest) ==
    IF rest = <<>> THEN acc
    ELSE LET bound == Head(rest)
             minX == IF Less(bound.Min[1], acc[1]) THEN bound.Min[1] ELSE acc[1]
             minY == IF Less(bound.Min[2], acc[2]) THEN bound.Min[2] ELSE acc[2]
             maxX == IF Less(acc[3], bound.Max[1]) THEN bound.Max[1] ELSE acc[3]
             maxY == IF Less(acc[4], bound.Max[2]) THEN bound.Max[2] ELSE acc[4]
         IN  boxLoop(<<minX, minY, maxX, maxY>>, Tail(rest))

computeCollectionBoundingBox(geometries) ==
    IF Len(geometries) = 0 THEN <<F(0), F(0), F(0), F(0)>>
    ELSE boxLoop(<<geometries[1].Min[1], geometries[1].Min[2],
                   geometries[1].Max[1], geometries[1].Max[2]>>, Tail(geometries))

\* the corners the boxes of the lists are made of; a box whose Min lies
\* above its Max is what Bound() returns for a geometry without points
Corners == {<<F(0), F(0)>>, <<F(1), F(2)>>, <<NaN, F(1)>>}
Boxes == {Box(min, max) : min \in Corners, max \in Corners}
BoxLists == UNION {[1..n -> Boxes] : n \in 0..MaxBoxes}

BBoxInit ==
    /\ boxIn \in BoxLists
    /\ boxOut = <<>>
    /\ boxPc = "call"
    /\ PromIdle /\ InferIdle /\ ValueIdle /\ CodecIdle /\ GeomIdle
    /\ WriterIdle /\ ReaderIdle /\ PureIdle /\ GenIdle

BBoxCall ==
    /\ boxPc = "call"
    /\ boxOut' = computeCollectionBoundingBox(boxIn)
    /\ boxPc' = "done"
    /\ UNCHANGED <<boxIn, promVars, inferVars, valueVars, codecVars, geomVars,
                   writerVars, readerVars, pureVars, genVars>>

BBoxNext == BBoxCall

SpecBBox == BBoxInit /\ [][BBoxNext]_vars

\* m is a least (greatest) element of the values vs
IsMinOf(m, vs) == m \in vs /\ \A x \in vs : ~ Less(x, m)
IsMaxOf(m, vs) == m \in vs /\ \A x \in vs : ~ Less(m, x)
BoxValues(bs, corner, k) == {bs[i][corner][k] : i \in 1..Len(bs)}
HasNaN(bs) == \E i \in 1..Len(bs) : \E k \in 1..2 : bs[i].Min[k].nan \/ bs[i].Max[k].nan
Reordered(bs) == {[i \in 1..Len(bs) |-> bs[p[i]]] : p \in Perms(1..Len(bs))}

\* the combined box is the component-wise min/max of the boxes, whatever
\* the order of the list; the empty list gives (0,0,0,0)
MinMaxAnyOrder ==
    IF boxIn = <<>> THEN boxOut = <<F(0), F(0), F(0), F(0)>>
    ELSE /\ IsMinOf(boxOut[1], BoxValues(boxIn, "Min", 1))
         /\ IsMinOf(boxOut[2], BoxValues(boxIn, "Min", 2))
         /\ IsMaxOf(boxOut[3], BoxValues(boxIn, "Max", 1))
         /\ IsMaxOf(boxOut[4], BoxValues(boxIn, "Max", 2))
         /\ \A bs \in Reordered(boxIn) : computeCollectionBoundingBox(bs) = boxOut

\* C16: for a list of geometries none of whose box coordinates is NaN,
\* computeCollectionBoundingBox returns the component-wise minimum of the
\* boxes' minX and minY and the component-wise maximum of their maxX and
\* maxY, independent of the order of the list; for the empty list it
\* returns (0,0,0,0).
C16_MinMaxOfNumbers ==
    boxPc = "done" /\ ~ HasNaN(boxIn) => MinMaxAnyOrder

\* C16 as stated, for every list of geometries: violated by a list that
\* holds a NaN coordinate, whose combined box depends on the order.
C16_MinMaxOfAnyList ==
    boxPc = "done" => MinMaxAnyOrder

C16_Witness ==
    /\ boxPc = "done"
    /\ boxIn = <<Box(<<F(1), F(2)>>, <<F(1), F(2)>>), Box(<<F(0), F(0)>>, <<F(0), F(0)>>),
                 Box(<<F(0), F(0)>>, <<F(1), F(2)>>)>>
    /\ boxOut = <<F(0), F(0), F(1), F(2)>>

(***************************************************************************)
(* The writer entry points on every argument of bounded length: nil and    *)
(* empty arguments, nil geometries and nil features at every position.     *)
(***************************************************************************)
MaxInputs == 3     \* geometries of a Write, features of a WriteFeatures

WriterGeometries ==
    {NilGeom, Point(Pt(1)), LineString(PointsFrom(1, MaxPts)), Ring(PointsFrom(1, MaxPts)),
     Polygon(<<PointsFrom(1, MaxPts)>>), Bound(Pt(1), Pt(2))}
WriterFeatures == {NilFeature} \cup {GeoFeature(g) : g \in WriterGeometries}
WriterOptions == {NilOptions, Options(TRUE), Options(FALSE)}

WriterInit ==
    /\ wCall \in {"Write", "WriteFeatures", "WriteFeature"}
    /\ wOpts \in WriterOptions
    /\ wGeoms \in IF wCall = "Write"
                  THEN UNION {[1..n -> WriterGeometries] : n \in 0..MaxInputs}
                  ELSE {<<>>}
    /\ wFc \in IF wCall = "WriteFeatures"
               THEN {NilFC} \cup {FC(fs) : fs \in UNION {[1..n -> WriterFeatures] : n \in 0..MaxInputs}}
               ELSE {NilFC}
    /\ wFeat \in IF wCall = "WriteFeature" THEN WriterFeatures ELSE {NilFeature}
    /\ wOut = NoOutput
    /\ wPc = "call"
    /\ PromIdle /\ InferIdle /\ ValueIdle /\ CodecIdle /\ GeomIdle
    /\ BBoxIdle /\ ReaderIdle /\ PureIdle /\ GenIdle

WriteCall ==
    /\ wPc = "call" /\ wCall = "Write"
    /\ wOut' = Write(wGeoms, wOpts)
    /\ wPc' = "done"
    /\ UNCHANGED <<wCall, wGeoms, wFc, wFeat, wOpts, promVars, inferVars, valueVars,
                   codecVars, geomVars, bboxVars, readerVars, pureVars, genVars>>

WriteFeaturesCall ==
    /\ wPc = "call" /\ wCall = "WriteFeatures"
    /\ wOut' = WriteFeatures(wFc, wOpts)
    /\ wPc' = "done"
    /\ UNCHANGED <<wCall, wGeoms, wFc, wFeat, wOpts, promVars, inferVars, valueVars,
                   codecVars, geomVars, bboxVars, readerVars, pureVars, genVars>>

WriteFeatureCall ==
    /\ wPc = "call" /\ wCall = "WriteFeature"
    /\ wOut' = WriteFeature(wFeat, wOpts)
    /\ wPc' = "done"
    /\ UNCHANGED <<wCall, wGeoms, wFc, wFeat, wOpts, promVars, inferVars, valueVars,
                   codecVars, geomVars, bboxVars, readerVars, pureVars, genVars>>

WriterNext == WriteCall \/ WriteFeaturesCall \/ WriteFeatureCall

SpecWrite == WriterInit /\ [][WriterNext]_vars

\* the call got nothing to write
EmptyArgument ==
    \/ wCall = "Write" /\ Len(wGeoms) = 0
    \/ wCall = "WriteFeatures" /\ (wFc.nil \/ Len(wFc.Features) = 0)
    \/ wCall = "WriteFeature" /\ wFeat.nil

\* C17: Write with an empty geometry list, WriteFeatures with a nil or empty
\* FeatureCollection and WriteFeature with a nil feature return
\* ErrNilGeometry, create no builder and leave the sink empty.
C17_EmptyInputRejected ==
    wPc = "done" /\ EmptyArgument =>
        wOut.err = "ErrNilGeometry" /\ wOut.builders = 0 /\ wOut.sink = <<>>

C17_Witness ==
    /\ wPc = "done" /\ wCall = "WriteFeatures"
    /\ ~ wFc.nil /\ wFc.Features = <<>>
    /\ wOut.err = "ErrNilGeometry"

\* the FlatGeobuf types of the non-nil geometries handed to the call
InputGeometries ==
    IF wCall = "Write" THEN wGeoms
    ELSE [i \in 1..Len(wFc.Features) |-> wFc.Features[i].Geometry]
NonNilTypes ==
    {orbToFGBGeometryType(InputGeometries[i]) :
        i \in {j \in 1..Len(InputGeometries) : InputGeometries[j] # NilGeom}}

\* C18: the header geometry type written by Write and WriteFeatures is the
\* common type T of the non-nil input geometries when they all map to T,
\* and Unknown when two of them map to different types, wherever the nil
\* geometries sit (position 0 included).
C18_HeaderTypeOfNonNil ==
    wPc = "done" /\ wCall \in {"Write", "WriteFeatures"} /\ wOut.err = "nil" =>
        /\ Cardinality(NonNilTypes) = 1 => {wOut.sink[1].GeometryType} = NonNilTypes
        /\ Cardinality(NonNilTypes) > 1 => wOut.sink[1].GeometryType = "Unknown"

(***************************************************************************)
(* A Reader open on a file with or without index and envelope, and one     *)
(* call of ReadAll, ReadGeometries, Search or SearchGeometries on it.      *)
(***************************************************************************)
MaxFileFeatures == 2

\* a point, a line, and a feature whose geometry type the reader does not
\* support
FileFeatures ==
    {FileFeature(geometryToFGB(Point(Pt(1))), <<1, 11, 1, 11>>),
     FileFeature(geometryToFGB(LineString(<<Pt(1), Pt(2)>>)), <<1, 11, 2, 12>>),
     FileFeature(FGB("Unknown", <<>>, <<>>, <<>>), <<0, 0, 0, 0>>)}

\* IndexNodeSize is 0 without index and 16 by default with one; the
\* envelope, when the header has one, covers every feature
Files ==
    {File(indexNodeSize, envelope, fs) :
        indexNodeSize \in {0, 16}, envelope \in {<<>>, <<0, 0, 20, 20>>},
        fs \in UNION {[1..n -> FileFeatures] : n \in 0..MaxFileFeatures}}

SearchBounds ==
    {[Min |-> <<0, 0>>, Max |-> <<20, 20>>], [Min |-> <<0, 0>>, Max |-> <<1, 11>>],
     [Min |-> <<50, 50>>, Max |-> <<60, 60>>]}

ReaderInit ==
    /\ rFile \in Files
    /\ rBounds \in SearchBounds
    /\ rOut = NoResult
    /\ rPc = "open"
    /\ PromIdle /\ InferIdle /\ ValueIdle /\ CodecIdle /\ GeomIdle
    /\ BBoxIdle /\ WriterIdle /\ PureIdle /\ GenIdle

ReadAllCall ==
    /\ rPc = "open"
    /\ rOut' = ReadAll(rFile)
    /\ rPc' = "ReadAll"
    /\ UNCHANGED <<rFile, rBounds, promVars, inferVars, valueVars, codecVars, geomVars,
                   bboxVars, writerVars, pureVars, genVars>>

ReadGeometriesCall ==
    /\ rPc = "open"
    /\ rOut' = ReadGeometries(rFile)
    /\ rPc' = "ReadGeometries"
    /\ UNCHANGED <<rFile, rBounds, promVars, inferVars, valueVars, codecVars, geomVars,
                   bboxVars, writerVars, pureVars, genVars>>

SearchCall ==
    /\ rPc = "open"
    /\ rOut' = Search(rFile, rBounds)
    /\ rPc' = "Search"
    /\ UNCHANGED <<rFile, rBounds, promVars, inferVars, valueVars, codecVars, geomVars,
                   bboxVars, writerVars, pureVars, genVars>>

SearchGeometriesCall ==
    /\ rPc = "open"
    /\ rOut' = SearchGeometries(rFile, rBounds)
    /\ rPc' = "SearchGeometries"
    /\ UNCHANGED <<rFile, rBounds, promVars, inferVars, valueVars, codecVars, geomVars,
                   bboxVars, writerVars, pureVars, genVars>>

ReaderNext == ReadAllCall \/ ReadGeometriesCall \/ SearchCall \/ SearchGeometriesCall

SpecRead == ReaderInit /\ [][ReaderNext]_vars

\* C19: on a file without spatial index (IndexNodeSize 0), Search and
\* SearchGeometries return ErrNoIndex and no result, and the index search
\* of the underlying library is not called.
C19_SearchNeedsIndex ==
    rPc \in {"Search", "SearchGeometries"} /\ rFile.IndexNodeSize = 0 =>
        rOut.err = "ErrNoIndex" /\ rOut.nil /\ rOut.items = <<>> /\ rOut.searches = 0

C19_Witness ==
    /\ rPc = "SearchGeometries"
    /\ rFile.IndexNodeSize = 0 /\ Len(rFile.Features) = MaxFileFeatures
    /\ rOut.err = "ErrNoIndex"

\* every feature of the file has a geometry the reader supports
AllSupported ==
    \A i \in 1..Len(rFile.Features) : geometryFromFGB(rFile.Features[i].geom) # NilGeom

\* C20: ReadAll returns as many features, and ReadGeometries as many
\* geometries, as the file has features with supported geometries, with
\* or without a spatial index.
C20_ReadAllReadsAll ==
    rPc \in {"ReadAll", "ReadGeometries"} /\ AllSupported =>
        rOut.err = "nil" /\ Len(rOut.items) = Len(rFile.Features)

\* C21: after the schema of a WriteFeatures call is inferred, every name n
\* of the column map designates the schema position of the column named n,
\* although names and columns come from two passes over the property maps.
C21_ColumnMapDesignatesName ==
    codecPc \in {"encode", "decode", "panic", "done"} =>
        \A n \in Names : schemaMap[n] # -1 =>
            schemaMap[n] < Len(schema) /\ schema[schemaMap[n] + 1].name = n

(***************************************************************************)
(* encodeProperties called repeatedly on the same record, column list and  *)
(* column map; each call ranges over the record in an order of its own.    *)
(***************************************************************************)
MaxCalls == 2      \* calls of encodeProperties on the same arguments

PureInit ==
    /\ features \in {<<Feature(p)>> : p \in PropMaps(EncodeValues)}
    /\ schema \in SchemaChoices
    /\ schemaMap = buildColumnMap(schema, ColumnNames(schema))
    /\ recIdx = 1
    /\ infRuns = <<>>
    /\ propBytes = [bytes |-> <<>>, panic |-> FALSE]
    /\ rawData = <<>>
    /\ fileHeader = NilHeader
    /\ decoded = Decoded(TRUE, NoProps, 0, 0, FALSE)
    /\ codecPc = "encode"
    /\ encRuns = <<>>
    /\ PromIdle /\ ValueIdle /\ GeomIdle /\ BBoxIdle /\ WriterIdle /\ ReaderIdle /\ GenIdle

EncodeAgain ==
    /\ Len(encRuns) < MaxCalls
    /\ \E order \in Perms(Keys(features[recIdx].props)) :
          encRuns' = Append(encRuns,
                            encodeProperties(features[recIdx].props, schema, schemaMap, order))
    /\ UNCHANGED <<inferVars, codecVars, promVars, valueVars, geomVars, bboxVars,
                   writerVars, readerVars, genVars>>

PureNext == EncodeAgain

SpecPure == PureInit /\ [][PureNext]_vars

\* C22: two calls of encodeProperties with the same record and the same
\* schema return the same byte sequence, also for a record with two or
\* more non-null known properties.
C22_SameBytesEveryCall ==
    \A i, j \in 1..Len(encRuns) : encRuns[i].bytes = encRuns[j].bytes

\* C23: a record tagged MultiPolygon or GeometryCollection without parts
\* but with at least one coordinate pair in xy unpacks to a MultiPolygon,
\* respectively a Collection, of exactly one Polygon built from xy and ends.
C23_PartlessFallback ==
    /\ geomPc = "done" /\ outGeom # PanicGeom
    /\ packed.type \in {"MultiPolygon", "GeometryCollection"}
    /\ Len(packed.parts) = 0 /\ Len(packed.xy) >= 2
    => IF packed.type = "MultiPolygon"
       THEN outGeom = MultiPolygon(<<polygonFromXYEnds(packed).lines>>)
       ELSE outGeom = Collection(<<polygonFromXYEnds(packed)>>)

\* C24: decodeProperties terminates after at most len(data)/2 (rounded up)
\* iterations of its loop, for every byte sequence and every header: each
\* iteration stops the loop or moves the cursor by the 2 index bytes at
\* least, a truncated Bool entry included.
C24_DecodeIterationsBounded ==
    codecPc = "done" => 2 * decoded.iters <= Len(rawData) + 1

\* an index of a Bool column with no value byte behind it
C24_Witness ==
    /\ codecPc = "done"
    /\ ~ fileHeader.nil /\ fileHeader.columns[1].type = "Bool"
    /\ rawData = <<0, 0>>
    /\ decoded.iters = 1 /\ decoded.offset = 2

\* the entries of a byte sequence, read one after the other as the format
\* lays them out: for each column name the value of the last entry whose
\* value bytes were all there, and the number of entries that name it
RECURSIVE EntriesOf(_, _, _, _, _)
EntriesOf(data, header, offset, last, count) ==
    IF offset + 2 > Len(data) THEN [last |-> last, count |-> count]
    ELSE LET colIndex == data[offset + 1] + 256 * data[offset + 2]
         IN IF colIndex >= Len(header.columns) THEN [last |-> last, count |-> count]
            ELSE LET col == header.columns[colIndex + 1]
                     rd == readPropertyValue(SubSeq(data, offset + 3, Len(data)), col.type)
                     seen == [count EXCEPT ![col.name] = @ + 1]
                 IN IF rd.panic \/ rd.n = 0 THEN [last |-> last, count |-> seen]
                    ELSE EntriesOf(data, header, offset + 2 + rd.n,
                                   [last EXCEPT ![col.name] = rd.v], seen)

\* C25: when the bytes hold two or more entries with the same column index,
\* the record returned by decodeProperties maps that column's name to the
\* value of the last of them that was fully decoded.
C25_LastWriteWins ==
    codecPc = "done" /\ ~ decoded.nil /\ ~ decoded.panic =>
        LET es == EntriesOf(rawData, fileHeader, 0, NoProps, [n \in Names |-> 0])
        IN \A n \in Names : es.count[n] >= 2 => decoded.props[n] = es.last[n]

\* C26: unpacking a Polygon or MultiLineString record returns normally for
\* any ends: no capacity end - start wraps in uint32, and every ring (line)
\* holds at most the points that xy has.
C26_AnyEndsTolerated ==
    /\ geomPc = "done" /\ packed.type \in {"Polygon", "MultiLineString"}
    /\ Len(packed.ends) > 0 /\ Len(packed.xy) >= 2
    => /\ ~ endsCapWraps(packed)
       /\ outGeom # PanicGeom
       /\ \A i \in 1..Len(outGeom.lines) : 2 * Len(outGeom.lines[i]) <= Len(packed.xy)

(***************************************************************************)
(* A feature generator driven call by call, beyond the end of its input.   *)
(* The input of a geometryFeatureGenerator is a list of geometries, that   *)
(* of a featureCollectionGenerator a list of features, some of them nil.   *)
(***************************************************************************)
MaxExtraCalls == 2     \* calls of Generate beyond the length of the input

\* a geometry of a type that geometryToFGB does not know
OtherGeom == Geom("Other", <<>>, <<>>, <<>>, <<>>)

GeneratorGeometries ==
    {NilGeom, OtherGeom, Point(Pt(1)), LineString(PointsFrom(1, MaxPts))}

GeneratorInit ==
    /\ genKind \in {"geometry", "feature"}
    /\ genItems \in UNION {[1..n -> {GeoFeature(g) : g \in GeneratorGeometries}
                                      \cup IF genKind = "feature" THEN {NilFeature} ELSE {}]
                           : n \in 0..MaxInputs}
    /\ genIndex = 0
    /\ genOut = <<>>
    /\ PromIdle /\ InferIdle /\ ValueIdle /\ CodecIdle /\ GeomIdle
    /\ BBoxIdle /\ WriterIdle /\ ReaderIdle /\ PureIdle

GenerateCall ==
    /\ Len(genOut) < Len(genItems) + MaxExtraCalls
    /\ genOut' = Append(genOut, Generate(genItems, genIndex).out)
    /\ genIndex' = Generate(genItems, genIndex).index
    /\ UNCHANGED <<genKind, genItems, promVars, inferVars, valueVars, codecVars, geomVars,
                   bboxVars, writerVars, readerVars, pureVars>>

GeneratorNext == GenerateCall

SpecGenerator == GeneratorInit /\ [][GeneratorNext]_vars

\* one packed feature per input element with a non-nil, supported geometry
ExpectedFeatures ==
    LET kept == SelectSeq(genItems,
                          LAMBDA f : ~ f.nil /\ f.Geometry # NilGeom
                                     /\ f.Geometry.t # "Other")
    IN  [i \in 1..Len(kept) |-> geometryToFGB(kept[i].Geometry)]
Returned == SelectSeq(genOut, LAMBDA out : out # NilFGB)

GeneratorInv ==
    /\ 0 <= genIndex /\ genIndex <= Len(genItems)
    /\ Len(Returned) <= Len(ExpectedFeatures)
    /\ Returned = SubSeq(ExpectedFeatures, 1, Len(Returned))
    /\ \A i \in 1..Len(genOut) : genOut[i] = NilFGB =>
          /\ Returned = ExpectedFeatures
          /\ \A j \in i..Len(genOut) : genOut[j] = NilFGB

\* C27: over any sequence of Generate calls the non-nil results are, in
\* input order, one feature per input element with a non-nil supported
\* geometry; the index never decreases and never exceeds the input length;
\* and after a nil result every later result is nil.
C27_GeneratorSequence ==
    [] GeneratorInv /\ [][genIndex' >= genIndex]_vars

C27_Witness ==
    /\ genKind = "feature"
    /\ genItems = <<NilFeature, GeoFeature(Point(Pt(1))), GeoFeature(OtherGeom)>>
    /\ genOut = <<geometryToFGB(Point(Pt(1))), NilFGB, NilFGB>>
    /\ genIndex = 3

\* C28: WriteFeatures on a collection that holds a nil feature, at position
\* 0 or later, completes without failing and writes the features of the
\* other entries, as the generator does when it meets a nil feature.
C28_NilFeatureSkipped ==
    /\ wPc = "done" /\ wCall = "WriteFeatures" /\ ~ wFc.nil
    /\ \E i \in 1..Len(wFc.Features) : wFc.Features[i].nil
    => /\ wOut.err = "nil"
       /\ Len(wOut.sink) = 1
       /\ wOut.sink[1].Features =
              generate([i \in 1..Len(wFc.Features) |-> wFc.Features[i].Geometry]).records

(***************************************************************************)
(* inferColumns run on reorderings of one list of features.  The values    *)
(* of a column cover every type inferColumnType returns.                   *)
(***************************************************************************)
MaxOrdered == 3    \* features of a list that is reordered

\* a feature for one value of each of Bool, Int, UInt, Long, ULong, Float,
\* Double, String and Json, and for nil
OrderFeatures ==
    <<Feature([n \in Names |-> IF n = "a" THEN Nil ELSE Absent]),
      Feature([n \in Names |-> IF n = "a" THEN BoolTrue ELSE Absent]),
      Feature([n \in Names |-> IF n = "a" THEN Int10 ELSE Absent]),
      Feature([n \in Names |-> IF n = "a" THEN UintSmall ELSE Absent]),
      Feature([n \in Names |-> IF n = "a" THEN IntWide ELSE Absent]),
      Feature([n \in Names |-> IF n = "a" THEN Uint64Small ELSE Absent]),
      Feature([n \in Names |-> IF n = "a" THEN Float2p5 ELSE Absent]),
      Feature([n \in Names |-> IF n = "a" THEN Float3p5 ELSE Absent]),
      Feature([n \in Names |-> IF n = "a" THEN StrHi ELSE Absent]),
      Feature([n \in Names |-> IF n = "a" THEN EmptyMap ELSE Absent]),
      Feature([n \in Names |-> Int10])>>

\* one list for each collection of features: every order of it is taken by
\* the calls
OrderLists ==
    UNION {{[i \in 1..n |-> OrderFeatures[k[i]]] :
               k \in {c \in [1..n -> 1..Len(OrderFeatures)] :
                         \A i \in 1..(n - 1) : c[i] <= c[i + 1]}}
           : n \in 0..MaxOrdered}

OrderInit ==
    /\ features \in OrderLists
    /\ infRuns = <<>>
    /\ PromIdle /\ ValueIdle /\ CodecIdle /\ GeomIdle /\ IoIdle

\* inferColumns on the features in any order
InferReordered ==
    /\ Len(infRuns) < 2
    /\ \E p \in Perms(1..Len(features)) :
          LET fs == [i \in 1..Len(features) |-> features[p[i]]]
          IN  \E iter \in IterOrders(fs) :
                 infRuns' = Append(infRuns, inferColumns(fs, iter))
    /\ UNCHANGED <<features, promVars, valueVars, codecVars, geomVars, ioVars>>

OrderNext == InferReordered

SpecOrder == OrderInit /\ [][OrderNext]_vars

\* the type a run gave the column named n (NoType: the run has no such column)
TypeIn(run, n) ==
    IF \E i \in 1..Len(run) : run[i].name = n
    THEN (CHOOSE c \in {run[i] : i \in 1..Len(run)} : c.name = n).type
    ELSE NoType

\* C29: for every permutation of the same list of features inferColumns
\* gives each column name the same type.
C29_TypesIndependentOfOrder ==
    \A i, j \in 1..Len(infRuns) : \A n \in Names :
        TypeIn(infRuns[i], n) = TypeIn(infRuns[j], n)

\* a Double, an Int and a Float value of one column, inferred in two orders
C29_Witness ==
    /\ features = <<Feature([n \in Names |-> IF n = "a" THEN Float2p5 ELSE Absent]),
                    Feature([n \in Names |-> IF n = "a" THEN Float3p5 ELSE Absent]),
                    Feature([n \in Names |-> Int10])>>
    /\ Len(infRuns) = 2
    /\ infRuns[1] # infRuns[2]
    /\ TypeIn(infRuns[1], "a") = "Double" /\ TypeIn(infRuns[2], "a") = "Double"

\* C30: the cursor of decodeProperties stays within the data,
\* 0 <= offset <= len(data): readPropertyValue never reports more bytes
\* read than it was given, also for a Json value without terminator that
\* does not parse.
C30_CursorWithinData ==
    codecPc = "done" => 0 <= decoded.offset /\ decoded.offset <= Len(rawData)

====
